---- MODULE Spec2Model ----
(***************************************************************************)
(* State-machine model of the directory walker of chigopher/pathlib        *)
(* (walk.go) over a small in-memory filesystem backend.                    *)
(*                                                                         *)
(* A path is the sequence of its components below the walk root, so the    *)
(* walk root is <<>> and Len(p) is the number of levels p lies below it.   *)
(***************************************************************************)
EXTENDS Integers, Sequences, FiniteSets, TLC

\* ------------------------------------------------------------------ bounds
\* WalkDepth is called with arguments in -1 .. MaxDepthOpt.
MaxDepthOpt == 2
\* The backend gives up dereferencing after this many links (ELOOP).
MaxLinkHops == 3
\* WalkMinimumFileSize and WalkMaximumFileSize are called with arguments in
\* -2 .. MaxSizeOpt.
MaxSizeOpt == 3

\* ---------------------------------------------------------- error values
Nil == "nil"
\* a nil pointer to a Path, a WalkOpts or a Walk
NilPointer == [nil |-> TRUE]
ErrInfoIsNil == "provided os.Info object was nil"
ErrInvalidAlgorithm == "invalid algorithm specified"
ErrStopWalk == "stop filesystem walk"
ErrWalkSkipSubtree == "skip subtree"
\* an ordinary error returned by a visitor
AwwShoot == "Aww shoot"
\* errors produced by the backend
ErrReadDir == "readdir failed"
ErrStat == "stat failed"
ErrLstat == "lstat failed"

\* the absent os.FileInfo
NoInfo == [kind |-> "none", size |-> 0]

\* -------------------------------------------------------------- algorithms
AlgorithmBasic == 0
AlgorithmDepthFirst == 1
AlgorithmPreOrderDepthFirst == 2
ConfusedWandering == 195936478

Algorithms ==
  {AlgorithmBasic, AlgorithmDepthFirst, AlgorithmPreOrderDepthFirst, ConfusedWandering}

\* ------------------------------------------------------------- the backend
\* A filesystem maps every directory (by path) to its entries in the order
\* the backend lists them, and names the paths on which a backend call fails.
F(n, s) == [name |-> n, kind |-> "file", size |-> s, target |-> <<>>]
D(n) == [name |-> n, kind |-> "dir", size |-> 0, target |-> <<>>]
L(n, t) == [name |-> n, kind |-> "symlink", size |-> 0, target |-> t]

NoFaults == [readdir |-> {}, stat |-> {}, nilinfo |-> {}, errinfo |-> {}]

Tree(e) == [ents |-> e, faults |-> NoFaults]

\* scenarios_test.go: two files at the root, a directory, two files in it
TwoFilesAtRootTwoInSubdir ==
  Tree(  (<<>> :> <<F("file0.txt", 2), F("file1.txt", 2), D("subdir")>>)
      @@ (<<"subdir">> :> <<F("file0.txt", 2), F("file1.txt", 2)>>))

\* walk_test.go TestWalkerOrder, the two depth-first cases
OrderTree ==
  Tree(  (<<>> :> <<F("1.txt", 0), F("2.txt", 0), F("3.txt", 0), D("subdir")>>)
      @@ (<<"subdir">> :> <<F("4.txt", 0)>>))

\* walk_test.go TestWalkerOrder, "Basic simple"
BasicOrderTree ==
  Tree(  (<<>> :> <<F("1", 0), D("2"), F("4", 0)>>)
      @@ (<<"2">> :> <<F("3", 0)>>))

\* walk_test.go TestErrWalkSkipSubtree
SkipTree ==
  Tree(  (<<>> :> <<F("foo1.txt", 0), D("subdir1")>>)
      @@ (<<"subdir1">> :> <<F("foo.txt", 0), D("subdir2")>>)
      @@ (<<"subdir1", "subdir2">> :> <<F("foo.txt", 0), D("subdir3")>>)
      @@ (<<"subdir1", "subdir2", "subdir3">> :> <<F("foo.txt", 0)>>))

\* directories listed before and between files, one of them empty, and a
\* listing that contains the directory itself
MixedTree ==
  Tree(  (<<>> :> <<D("b"), F("a", 1), D("c"), F("z", 3)>>)
      @@ (<<"b">> :> <<D("."), F("y", 1), D("x")>>)
      @@ (<<"b", "x">> :> <<F("w", 2)>>)
      @@ (<<"c">> :> << >>))

\* links to a file, to a directory and to another link
SymlinkTree ==
  Tree(  (<<>> :> <<F("f", 1), D("d"), L("ld", <<"d">>), L("lf", <<"f">>),
                    L("ll", <<"lf">>)>>)
      @@ (<<"d">> :> <<F("g", 2)>>))

\* a link to nothing
DanglingTree ==
  Tree(<<>> :> <<F("f", 1), L("gone", <<"nowhere">>), F("h", 1)>>)

\* a backend that lists the walk root among the root's own entries
SelfListedRootTree ==
  Tree(  (<<>> :> <<D("."), F("a", 1), D("d")>>)
      @@ (<<"d">> :> <<F("g", 1)>>))

\* a directory or a link whose metadata reports size s
Sized(e, s) == [e EXCEPT !.size = s]

\* files of every size from 0 to 4, directories and links of several sizes
SizeTree ==
  Tree(  (<<>> :> <<F("f0", 0), F("f1", 1), F("f2", 2), F("f3", 3), F("f4", 4),
                    Sized(D("d"), 2), Sized(L("l", <<"f4">>), 1)>>)
      @@ (<<"d">> :> <<F("g", 3), Sized(D("e"), 4), L("m", <<"f0">>)>>)
      @@ (<<"d", "e">> :> << >>))

\* a backend on which one call fails
FaultBase ==
  (<<>> :> <<F("a", 1), D("d"), F("e", 1)>>) @@ (<<"d">> :> <<F("x", 1)>>)

FaultTrees ==
  { [ents |-> FaultBase, faults |-> [NoFaults EXCEPT !.readdir = {<<"d">>}]],
    [ents |-> FaultBase, faults |-> [NoFaults EXCEPT !.readdir = {<<>>}]],
    [ents |-> FaultBase, faults |-> [NoFaults EXCEPT !.stat = {<<"d", "x">>}]],
    [ents |-> FaultBase, faults |-> [NoFaults EXCEPT !.nilinfo = {<<"e">>}]],
    [ents |-> FaultBase, faults |-> [NoFaults EXCEPT !.nilinfo = {<<"d">>}]],
    [ents |-> FaultBase, faults |-> [NoFaults EXCEPT !.errinfo = {<<"a">>}]] }

Trees ==
  { TwoFilesAtRootTwoInSubdir, OrderTree, BasicOrderTree, SkipTree, MixedTree,
    SymlinkTree, DanglingTree, SelfListedRootTree } \cup FaultTrees

\* filepath.Join cleans the result, so joining "." gives the directory itself
Join(p, name) == IF name = "." THEN p ELSE Append(p, name)

Front(p) == SubSeq(p, 1, Len(p) - 1)
Last(p) == p[Len(p)]

IsPrefix(p, q) == Len(p) <= Len(q) /\ SubSeq(q, 1, Len(p)) = p
IsProperPrefix(p, q) == Len(p) < Len(q) /\ IsPrefix(p, q)

Missing == <<"", "missing">>

\* The entry of directory d (a real directory) called n, if there is one.
HasEntry(t, d, n) ==
  d \in DOMAIN t.ents /\ \E k \in 1..Len(t.ents[d]) : t.ents[d][k].name = n
Entry(t, d, n) ==
  t.ents[d][CHOOSE k \in 1..Len(t.ents[d]) : t.ents[d][k].name = n]

\* The real location of path p: every link on the way is dereferenced when
\* deref is set, every link but the last component's otherwise.  Missing when
\* a component does not exist or the links do not end within hops hops.
RECURSIVE RealPath(_, _, _, _)
RealPath(t, p, deref, hops) ==
  IF p = <<>> THEN <<>>
  ELSE LET par == RealPath(t, Front(p), TRUE, hops) IN
       IF par = Missing \/ ~HasEntry(t, par, Last(p)) THEN Missing
       ELSE LET e == Entry(t, par, Last(p)) IN
            IF e.kind = "symlink" /\ deref
            THEN IF hops = 0 THEN Missing
                 ELSE RealPath(t, e.target, TRUE, hops - 1)
            ELSE Append(par, Last(p))

InfoAt(t, rp) ==
  IF rp = <<>> THEN [kind |-> "dir", size |-> 0]
  ELSE LET e == Entry(t, Front(rp), Last(rp)) IN [kind |-> e.kind, size |-> e.size]

\* Path.Stat: the backend's dereferencing stat, as <<info, err>>
Stat(t, p) ==
  LET rp == RealPath(t, p, TRUE, MaxLinkHops) IN
  IF p \in t.faults.stat \/ rp = Missing THEN <<NoInfo, ErrStat>>
  ELSE IF p \in t.faults.nilinfo THEN <<NoInfo, Nil>>
  ELSE <<InfoAt(t, rp), Nil>>

\* Path.Lstat: the backend's non-dereferencing stat, as <<info, err>>
Lstat(t, p) ==
  LET rp == RealPath(t, p, FALSE, MaxLinkHops) IN
  IF p \in t.faults.stat \/ rp = Missing THEN <<NoInfo, ErrLstat>>
  ELSE IF p \in t.faults.nilinfo THEN <<NoInfo, Nil>>
  ELSE IF p \in t.faults.errinfo THEN <<InfoAt(t, rp), ErrLstat>>
  ELSE <<InfoAt(t, rp), Nil>>

\* Path.ReadDir: the children of p in backend order, as <<paths, err>>
ReadDir(t, p) ==
  LET rp == RealPath(t, p, TRUE, MaxLinkHops) IN
  IF p \in t.faults.readdir \/ rp = Missing \/ rp \notin DOMAIN t.ents
  THEN <<<< >>, ErrReadDir>>
  ELSE <<[k \in 1..Len(t.ents[rp]) |-> Join(p, t.ents[rp][k].name)], Nil>>

\* os.FileMode classification
IsDir(info) == info.kind = "dir"
IsFile(info) == info.kind = "file"
IsSymlink(info) == info.kind = "symlink"

\* ----------------------------------------------------------- configuration
DefaultWalkOpts ==
  [ Depth |-> -1,
    Algorithm |-> AlgorithmBasic,
    FollowSymlinks |-> FALSE,
    MinimumFileSize |-> -1,
    MaximumFileSize |-> -1,
    VisitFiles |-> TRUE,
    VisitDirs |-> TRUE,
    VisitSymlinks |-> TRUE ]

\* mutant: the minimum is exclusive
MeetsMinimumSize_Exclusive(o, size) ==
  IF o.MinimumFileSize < 0 THEN TRUE ELSE size > o.MinimumFileSize

MeetsMinimumSize(o, size) ==
  IF o.MinimumFileSize < 0 THEN TRUE ELSE size >= o.MinimumFileSize

MeetsMaximumSize(o, size) ==
  IF o.MaximumFileSize < 0 THEN TRUE ELSE size <= o.MaximumFileSize

\* mutant: the limit is taken one level too early
maxDepthReached_OffByOne(o, currentDepth) ==
  o.Depth >= 0 /\ currentDepth >= o.Depth

maxDepthReached(o, currentDepth) ==
  o.Depth >= 0 /\ currentDepth > o.Depth

\* mutant: the size bounds are applied to whatever the node is
passesQuerySpecification_SizesForAll(o, info) ==
  IF ~MeetsMinimumSize(o, info.size) \/ ~MeetsMaximumSize(o, info.size) THEN FALSE
  ELSE IF IsFile(info) THEN o.VisitFiles
  ELSE IF IsDir(info) /\ ~o.VisitDirs THEN FALSE
  ELSE IF IsSymlink(info) /\ ~o.VisitSymlinks THEN FALSE
  ELSE TRUE

passesQuerySpecification(o, info) ==
  IF IsFile(info)
  THEN IF ~o.VisitFiles THEN FALSE
       ELSE IF ~MeetsMinimumSize(o, info.size) \/ ~MeetsMaximumSize(o, info.size)
            THEN FALSE
            ELSE TRUE
  ELSE IF IsDir(info) /\ ~o.VisitDirs THEN FALSE
  ELSE IF IsSymlink(info) /\ ~o.VisitSymlinks THEN FALSE
  ELSE TRUE


\* ------------------------------------------------------- control signals
\* what a visitor may return
Signals == {Nil, ErrStopWalk, ErrWalkSkipSubtree, AwwShoot}

\* mutant: Walk's switch takes the unknown selector for an algorithm
Recognized_Lenient == {AlgorithmBasic, AlgorithmDepthFirst, ConfusedWandering}

\* The algorithms Walk dispatches on.
Recognized == {AlgorithmBasic, AlgorithmDepthFirst}
\* The pre-order algorithm named by walk_test.go.
SpecAlgorithms == {AlgorithmPreOrderDepthFirst}

\* mutant: Basic gives up the rest of the directory on any skip-subtree
SkipEffect_BasicAbandons(alg, info) ==
  IF alg = AlgorithmDepthFirst THEN "continue"
  ELSE IF IsDir(info) /\ alg = AlgorithmPreOrderDepthFirst THEN "prune"
  ELSE "abandon"

\* mutant: pre-order descends into a directory it was told to skip
SkipEffect_NoPrune(alg, info) ==
  IF alg = AlgorithmDepthFirst \/ IsDir(info) THEN "continue" ELSE "abandon"

\* mutant: a skip-subtree is taken for a continue everywhere but on a
\* directory in pre-order
SkipEffect_NoAbandon(alg, info) ==
  IF IsDir(info) /\ alg = AlgorithmPreOrderDepthFirst THEN "prune" ELSE "continue"

\* mutant: post-order treats a skip-subtree as the other algorithms do
SkipEffect_PostOrderToo(alg, info) ==
  IF IsDir(info)
  THEN IF alg = AlgorithmPreOrderDepthFirst THEN "prune" ELSE "continue"
  ELSE "abandon"

\* What a skip-subtree returned for a visited node does, per algorithm:
\*   "continue"  nothing, the walk goes on as after a nil return
\*   "prune"     the visited directory is not descended into, its siblings are
\*   "abandon"   the rest of the directory holding the node is left out
SkipEffect(alg, info) ==
  IF alg = AlgorithmDepthFirst THEN "continue"
  ELSE IF IsDir(info)
       THEN IF alg = AlgorithmPreOrderDepthFirst THEN "prune" ELSE "continue"
       ELSE "abandon"

\* ------------------------------------------------------------------- state
VARIABLES
  tree,     \* the backend's filesystem below the walk root
  Opts,     \* Walk.Opts
  pc,       \* "idle" before Walk is called, "walking", "done" when it returned
  stack,    \* the activations of walkBasic / walkDFS, innermost last
  calls,    \* every invocation of the visitor so far, with what it returned
  reads,    \* every directory handed to ReadDir so far
  result,   \* what Walk returned
  wroot,    \* Walk.root
  prev,     \* the earlier calls of Walk on this Walk object: [calls, result]
  rfs,      \* the filesystem a path operation works on, and what it can do
  rinput,   \* the path the operation is called on
  rop,      \* the operation called: "ResolveAll", "Resolve", "IsSymlink"
  rpath,    \* the argument of the innermost resolveAllHelper
  rpc,      \* "idle", "running" inside ResolveAll, "done" when returned
  rdepth,   \* the number of resolveAllHelper calls in progress
  rresult,  \* what the operation returned: [val, err]
  rother,   \* the path Equals compares with
  pthis,    \* the text of a Path object, Path.path
  pother,   \* the text of the Path handed to RelativeTo, or Rename's newname
  pfiles,   \* the backend's files by name, with their content
  pop,      \* the operation called on the Path object: "RelativeTo", "Rename"
  pret,     \* what it returned
  nroot,    \* the root handed to the constructor of a Walk
  nopts,    \* the options handed to NewWalkWithOpts
  npc,      \* "args" before the constructor returns, "done" after
  nwalk,    \* the Walk object the constructor returned
  nerr      \* the error the constructor returned

walkVars == <<tree, Opts, pc, stack, calls, reads, result, wroot, prev>>
resolveVars == <<rfs, rinput, rop, rpath, rpc, rdepth, rresult, rother>>
pathVars == <<pthis, pother, pfiles, pop, pret>>
newVars == <<nroot, nopts, npc, nwalk, nerr>>
vars == <<tree, Opts, pc, stack, calls, reads, result, wroot, prev,
          rfs, rinput, rop, rpath, rpc, rdepth, rresult, rother,
          pthis, pother, pfiles, pop, pret,
          nroot, nopts, npc, nwalk, nerr>>

\* the walk root
root == << >>

\* One activation of a walk function on directory dir.
\*   pc: "enter"     at the depth check
\*       "iter"      in iterateImmediateChildren, about to take child i
\*       "recursing" in the recursive call for child i
\*       "visit"     about to filter and visit child i
\*       "post"      in walkDFS's second loop, about to take buf[j]
\*       "ret"       returning rv
NewFrame(dir, depth) ==
  [ dir |-> dir, depth |-> depth, pc |-> "enter", children |-> << >>, i |-> 1,
    info |-> NoInfo, err |-> Nil, buf |-> << >>, j |-> 1, rv |-> Nil ]

Top == stack[Len(stack)]
SetTop(f) == [stack EXCEPT ![Len(stack)] = f]
Returning(f, r) == [f EXCEPT !.pc = "ret", !.rv = r]
NextChild(f) == [f EXCEPT !.pc = "iter", !.i = f.i + 1]
Recurse(f) == <<[f EXCEPT !.pc = "recursing"], NewFrame(f.children[f.i], f.depth + 1)>>
\* mutant: the child is put in front of the buffer
Buffered_Prepend(f) ==
  [f EXCEPT !.buf = <<[path |-> f.children[f.i], info |-> f.info, err |-> f.err]>> \o f.buf]

Buffered(f) ==
  [f EXCEPT !.buf = Append(f.buf, [path |-> f.children[f.i], info |-> f.info, err |-> f.err])]

\* the value of an operation that has not returned
NoResult == [val |-> << >>, err |-> Nil]

\* no path operation has been called
ResolverIdle ==
  /\ rfs = [real |-> {}, links |-> << >>, lstater |-> "ok", linkReader |-> "ok"]
  /\ rinput = << >>
  /\ rop = "none"
  /\ rpath = << >>
  /\ rpc = "idle"
  /\ rdepth = 0
  /\ rresult = NoResult
  /\ rother = << >>

\* no operation has been called on a Path object
PathIdle ==
  /\ pthis = << >>
  /\ pother = << >>
  /\ pfiles = << >>
  /\ pop = "none"
  /\ pret = NoResult

\* no Walk has been constructed through the model's constructor
NewIdle ==
  /\ nroot = NilPointer
  /\ nopts = NilPointer
  /\ npc = "idle"
  /\ nwalk = NilPointer
  /\ nerr = Nil

Init ==
  /\ ResolverIdle
  /\ PathIdle
  /\ NewIdle
  /\ tree \in Trees
  /\ Opts = DefaultWalkOpts
  /\ pc = "idle"
  /\ stack = << >>
  /\ wroot = root
  /\ prev = << >>
  /\ calls = << >>
  /\ reads = << >>
  /\ result = Nil

\* ------------------------------------------------------- option functions
WalkDepth ==
  /\ pc = "idle"
  /\ \E depth \in -1..MaxDepthOpt : Opts' = [Opts EXCEPT !.Depth = depth]
  /\ UNCHANGED <<tree, wroot, prev, pc, stack, calls, reads, result>>
  /\ UNCHANGED <<resolveVars, pathVars, newVars>>

WalkAlgorithm ==
  /\ pc = "idle"
  /\ \E algo \in Algorithms : Opts' = [Opts EXCEPT !.Algorithm = algo]
  /\ UNCHANGED <<tree, wroot, prev, pc, stack, calls, reads, result>>
  /\ UNCHANGED <<resolveVars, pathVars, newVars>>

WalkFollowSymlinks ==
  /\ pc = "idle"
  /\ \E follow \in BOOLEAN : Opts' = [Opts EXCEPT !.FollowSymlinks = follow]
  /\ UNCHANGED <<tree, wroot, prev, pc, stack, calls, reads, result>>
  /\ UNCHANGED <<resolveVars, pathVars, newVars>>

WalkMinimumFileSize ==
  /\ pc = "idle"
  /\ \E size \in -2..MaxSizeOpt : Opts' = [Opts EXCEPT !.MinimumFileSize = size]
  /\ UNCHANGED <<tree, wroot, prev, pc, stack, calls, reads, result>>
  /\ UNCHANGED <<resolveVars, pathVars, newVars>>

\* mutant: the option function writes the other size bound
WalkMaximumFileSize_WritesMinimum ==
  /\ pc = "idle"
  /\ \E size \in -2..MaxSizeOpt : Opts' = [Opts EXCEPT !.MinimumFileSize = size]
  /\ UNCHANGED <<tree, wroot, prev, pc, stack, calls, reads, result>>
  /\ UNCHANGED <<resolveVars, pathVars, newVars>>

WalkMaximumFileSize ==
  /\ pc = "idle"
  /\ \E size \in -2..MaxSizeOpt : Opts' = [Opts EXCEPT !.MaximumFileSize = size]
  /\ UNCHANGED <<tree, wroot, prev, pc, stack, calls, reads, result>>
  /\ UNCHANGED <<resolveVars, pathVars, newVars>>

WalkVisitFiles ==
  /\ pc = "idle"
  /\ \E value \in BOOLEAN : Opts' = [Opts EXCEPT !.VisitFiles = value]
  /\ UNCHANGED <<tree, wroot, prev, pc, stack, calls, reads, result>>
  /\ UNCHANGED <<resolveVars, pathVars, newVars>>

WalkVisitDirs ==
  /\ pc = "idle"
  /\ \E value \in BOOLEAN : Opts' = [Opts EXCEPT !.VisitDirs = value]
  /\ UNCHANGED <<tree, wroot, prev, pc, stack, calls, reads, result>>
  /\ UNCHANGED <<resolveVars, pathVars, newVars>>

WalkVisitSymlinks ==
  /\ pc = "idle"
  /\ \E value \in BOOLEAN : Opts' = [Opts EXCEPT !.VisitSymlinks = value]
  /\ UNCHANGED <<tree, wroot, prev, pc, stack, calls, reads, result>>
  /\ UNCHANGED <<resolveVars, pathVars, newVars>>

\* ------------------------------------------------------------------- Walk
\* Walk is called: the algorithm is selected.
Walk ==
  /\ pc = "idle"
  /\ IF Opts.Algorithm \in Recognized \cup SpecAlgorithms
     THEN /\ stack' = <<NewFrame(wroot, 0)>>
          /\ pc' = "walking"
          /\ UNCHANGED result
     ELSE /\ result' = ErrInvalidAlgorithm
          /\ pc' = "done"
          /\ UNCHANGED stack
  /\ UNCHANGED <<tree, wroot, prev, Opts, calls, reads>>
  /\ UNCHANGED <<resolveVars, pathVars, newVars>>

\* mutant: the depth limit is counted down in the configuration on the way
\* into a directory
walkEnter_DepthCountedDown ==
  /\ pc = "walking"
  /\ Top.pc = "enter"
  /\ IF maxDepthReached(Opts, 0)
     THEN /\ stack' = SetTop(Returning(Top, Nil))
          /\ UNCHANGED <<reads, Opts>>
     ELSE LET rd == ReadDir(tree, Top.dir) IN
          /\ reads' = Append(reads, Top.dir)
          /\ Opts' = [Opts EXCEPT !.Depth = IF @ > 0 THEN @ - 1 ELSE @]
          /\ stack' = SetTop(IF rd[2] # Nil
                             THEN Returning(Top, rd[2])
                             ELSE [Top EXCEPT !.children = rd[1], !.i = 1, !.pc = "iter"])
  /\ UNCHANGED <<tree, wroot, prev, pc, calls, result>>
  /\ UNCHANGED <<resolveVars, pathVars, newVars>>

\* The head of a walk function: the depth check, then the directory read
\* that opens iterateImmediateChildren.
walkEnter ==
  /\ pc = "walking"
  /\ Top.pc = "enter"
  /\ IF maxDepthReached(Opts, Top.depth)
     THEN /\ stack' = SetTop(Returning(Top, Nil))
          /\ UNCHANGED reads
     ELSE LET rd == ReadDir(tree, Top.dir) IN
          /\ reads' = Append(reads, Top.dir)
          /\ stack' = SetTop(IF rd[2] # Nil
                             THEN Returning(Top, rd[2])
                             ELSE [Top EXCEPT !.children = rd[1], !.i = 1, !.pc = "iter"])
  /\ UNCHANGED <<tree, wroot, prev, Opts, pc, calls, result>>
  /\ UNCHANGED <<resolveVars, pathVars, newVars>>

\* The callbacks the walk functions hand to iterateImmediateChildren, up to
\* the recursive call: the stack after the callback took child f.i.
\* mutant: the callback does not recurse
walkBasicCallback_NoRecursion(f) == <<[f EXCEPT !.pc = "visit"]>>

\* mutant: a directory the query filter does not admit is not descended into
walkBasicCallback_FilteredDescent(f) ==
  IF IsDir(f.info) /\ passesQuerySpecification(Opts, f.info)
  THEN Recurse(f)
  ELSE <<[f EXCEPT !.pc = "visit"]>>

walkBasicCallback(f) ==
  IF IsDir(f.info) THEN Recurse(f) ELSE <<[f EXCEPT !.pc = "visit"]>>

walkDFSCallback(f) ==
  IF IsDir(f.info) THEN Recurse(f) ELSE <<NextChild(Buffered(f))>>

\* mutant: a directory is descended into and never visited
walkPreOrderDFSCallback_DescendOnly(f) ==
  IF IsDir(f.info) THEN Recurse(f) ELSE <<[f EXCEPT !.pc = "visit"]>>

walkPreOrderDFSCallback(f) == <<[f EXCEPT !.pc = "visit"]>>

algorithmFunction(f) ==
  CASE Opts.Algorithm = AlgorithmBasic -> walkBasicCallback(f)
    [] Opts.Algorithm = AlgorithmDepthFirst -> walkDFSCallback(f)
    [] OTHER -> walkPreOrderDFSCallback(f)

\* mutant: links are followed whatever FollowSymlinks says
childInfo_AlwaysFollows(o, t, child) == Stat(t, child)

\* mutant: the child's own metadata is taken whatever FollowSymlinks says
childInfo_NeverFollows(o, t, child) == Lstat(t, child)

\* The metadata iterateImmediateChildren asks of the backend for a child.
childInfo(o, t, child) ==
  IF o.FollowSymlinks THEN Stat(t, child) ELSE Lstat(t, child)

\* mutant: absent metadata is reported as a failed stat
missingInfo_AsBackendError(err) == IF err # Nil THEN err ELSE ErrLstat

\* What iterateImmediateChildren returns for a child without metadata.
missingInfo(err) == IF err # Nil THEN err ELSE ErrInfoIsNil

\* mutant: only an answer without metadata and without error counts as nil
infoIsNil_UnlessError(st) == st[1] = NoInfo /\ st[2] = Nil

\* iterateImmediateChildren's test info == nil on the backend's answer st
infoIsNil(st) == st[1] = NoInfo

\* One turn of iterateImmediateChildren's loop: the child's metadata is
\* obtained and the child is handed to the algorithm's callback.
iterateImmediateChildren ==
  /\ pc = "walking"
  /\ Top.pc = "iter"
  /\ Top.i <= Len(Top.children)
  /\ LET child == Top.children[Top.i]
         st == childInfo(Opts, tree, child)
         below == SubSeq(stack, 1, Len(stack) - 1)
     IN stack' =
          IF child = Top.dir THEN SetTop(NextChild(Top))
          ELSE IF Opts.FollowSymlinks /\ st[2] # Nil THEN SetTop(Returning(Top, st[2]))
          ELSE IF infoIsNil(st)
               THEN SetTop(Returning(Top, missingInfo(st[2])))
          ELSE below \o algorithmFunction([Top EXCEPT !.info = st[1], !.err = st[2]])
  /\ UNCHANGED <<tree, wroot, prev, Opts, pc, calls, reads, result>>
  /\ UNCHANGED <<resolveVars, pathVars, newVars>>

\* iterateImmediateChildren ran out of children.
iterateDone ==
  /\ pc = "walking"
  /\ Top.pc = "iter"
  /\ Top.i > Len(Top.children)
  /\ stack' = SetTop(IF Opts.Algorithm = AlgorithmDepthFirst
                     THEN [Top EXCEPT !.pc = "post", !.j = 1]
                     ELSE Returning(Top, Nil))
  /\ UNCHANGED <<tree, wroot, prev, Opts, pc, calls, reads, result>>
  /\ UNCHANGED <<resolveVars, pathVars, newVars>>

\* The visitor is invoked for path and returns sig.
Invoke(path, info, err, sig) ==
  calls' = Append(calls, [path |-> path, info |-> info, err |-> err, ret |-> sig])

\* walkBasic's callback after the recursion: the child is filtered and visited.
walkBasicVisit ==
  /\ pc = "walking"
  /\ Opts.Algorithm = AlgorithmBasic
  /\ Top.pc = "visit"
  /\ IF passesQuerySpecification(Opts, Top.info)
     THEN \E sig \in Signals :
            /\ Invoke(Top.children[Top.i], Top.info, Top.err, sig)
            /\ stack' = SetTop(
                 IF sig = Nil THEN NextChild(Top)
                 ELSE IF sig = ErrWalkSkipSubtree
                      THEN IF SkipEffect(Opts.Algorithm, Top.info) = "continue"
                           THEN NextChild(Top)
                           ELSE Returning(Top, Nil)
                      ELSE Returning(Top, sig))
     ELSE /\ stack' = SetTop(NextChild(Top))
          /\ UNCHANGED calls
  /\ UNCHANGED <<tree, wroot, prev, Opts, pc, reads, result>>
  /\ UNCHANGED <<resolveVars, pathVars, newVars>>

\* walkDFS's second loop: the buffered children are filtered and visited.
walkDFSVisit ==
  /\ pc = "walking"
  /\ Top.pc = "post"
  /\ LET next == [Top EXCEPT !.j = Top.j + 1] IN
     IF Top.j > Len(Top.buf)
     THEN /\ stack' = SetTop(Returning(Top, Nil))
          /\ UNCHANGED calls
     ELSE LET child == Top.buf[Top.j] IN
          IF passesQuerySpecification(Opts, child.info)
          THEN \E sig \in Signals :
                 /\ Invoke(child.path, child.info, child.err, sig)
                 /\ stack' = SetTop(
                      IF sig = Nil THEN next
                      ELSE IF sig = ErrWalkSkipSubtree
                           THEN IF SkipEffect(Opts.Algorithm, child.info) = "continue"
                                THEN next
                                ELSE Returning(Top, Nil)
                           ELSE Returning(Top, sig))
          ELSE /\ stack' = SetTop(next)
               /\ UNCHANGED calls
  /\ UNCHANGED <<tree, wroot, prev, Opts, pc, reads, result>>
  /\ UNCHANGED <<resolveVars, pathVars, newVars>>

\* The pre-order callback: the child is filtered and visited on discovery,
\* then descended into if it is a directory.
walkPreOrderDFSVisit ==
  /\ pc = "walking"
  /\ Opts.Algorithm = AlgorithmPreOrderDepthFirst
  /\ Top.pc = "visit"
  /\ LET below == SubSeq(stack, 1, Len(stack) - 1)
         descend == IF IsDir(Top.info) THEN Recurse(Top) ELSE <<NextChild(Top)>>
     IN
     IF passesQuerySpecification(Opts, Top.info)
     THEN \E sig \in Signals :
            /\ Invoke(Top.children[Top.i], Top.info, Top.err, sig)
            /\ stack' = below \o
                 (IF sig = Nil THEN descend
                  ELSE IF sig = ErrWalkSkipSubtree
                       THEN CASE SkipEffect(Opts.Algorithm, Top.info) = "continue" -> descend
                              [] SkipEffect(Opts.Algorithm, Top.info) = "prune" -> <<NextChild(Top)>>
                              [] OTHER -> <<Returning(Top, Nil)>>
                       ELSE <<Returning(Top, sig)>>)
     ELSE /\ stack' = below \o descend
          /\ UNCHANGED calls
  /\ UNCHANGED <<tree, wroot, prev, Opts, pc, reads, result>>
  /\ UNCHANGED <<resolveVars, pathVars, newVars>>

\* mutant: walkDFS does not buffer the directory it recursed into
afterRecursion_DirNotBuffered(f) ==
  IF Opts.Algorithm = AlgorithmBasic THEN [f EXCEPT !.pc = "visit"] ELSE NextChild(f)

\* What the caller does once the recursive call for child f.i returned nil.
afterRecursion(f) ==
  CASE Opts.Algorithm = AlgorithmBasic -> [f EXCEPT !.pc = "visit"]
    [] Opts.Algorithm = AlgorithmDepthFirst -> NextChild(Buffered(f))
    [] OTHER -> NextChild(f)

\* mutant: a backend error met below is passed over, the walk goes on
recursionResult_BackendErrorPassedOver(caller, rv) ==
  IF rv # Nil /\ rv \notin {ErrReadDir, ErrStat, ErrLstat}
  THEN Returning(caller, rv)
  ELSE afterRecursion(caller)

\* mutant: the error of the recursive call is dropped
recursionResult_Dropped(caller, rv) == afterRecursion(caller)

\* What the caller does with the result rv of the recursive call: an error
\* is returned further up, through iterateImmediateChildren.
recursionResult(caller, rv) ==
  IF rv # Nil THEN Returning(caller, rv) ELSE afterRecursion(caller)

\* A recursive call returns to the callback that made it.
walkReturn ==
  /\ pc = "walking"
  /\ Len(stack) > 1
  /\ Top.pc = "ret"
  /\ LET caller == stack[Len(stack) - 1]
         below == SubSeq(stack, 1, Len(stack) - 2)
     IN stack' = below \o <<recursionResult(caller, Top.rv)>>
  /\ UNCHANGED <<tree, wroot, prev, Opts, pc, calls, reads, result>>
  /\ UNCHANGED <<resolveVars, pathVars, newVars>>

\* mutant: Walk hands the stop signal on to its caller
WalkResult_StopNotAbsorbed(err) == err

\* What Walk makes of the error of the outermost walk function.
WalkResult(err) == IF err = ErrStopWalk THEN Nil ELSE err

\* The outermost walk function returns and Walk returns.
WalkFinish ==
  /\ pc = "walking"
  /\ Len(stack) = 1
  /\ Top.pc = "ret"
  /\ result' = WalkResult(Top.rv)
  /\ pc' = "done"
  /\ stack' = << >>
  /\ UNCHANGED <<tree, wroot, prev, Opts, calls, reads>>
  /\ UNCHANGED <<resolveVars, pathVars, newVars>>

Next ==
  \/ WalkDepth
  \/ WalkAlgorithm
  \/ WalkFollowSymlinks
  \/ WalkVisitFiles
  \/ WalkVisitDirs
  \/ WalkVisitSymlinks
  \/ Walk
  \/ walkEnter
  \/ iterateImmediateChildren
  \/ iterateDone
  \/ walkBasicVisit
  \/ walkDFSVisit
  \/ walkPreOrderDFSVisit
  \/ walkReturn
  \/ WalkFinish

Spec == Init /\ [][Next]_vars

\* ------------------------------------------------- walks with size bounds
\* A Basic walk of the tree of sized objects, configured with the size
\* bounds and the visit flags.
FilterInit ==
  /\ ResolverIdle
  /\ PathIdle
  /\ NewIdle
  /\ PathIdle
  /\ NewIdle
  /\ tree = SizeTree
  /\ Opts = DefaultWalkOpts
  /\ pc = "idle"
  /\ stack = << >>
  /\ wroot = root
  /\ prev = << >>
  /\ calls = << >>
  /\ reads = << >>
  /\ result = Nil

FilterNext ==
  \/ WalkMinimumFileSize
  \/ WalkMaximumFileSize
  \/ WalkVisitFiles
  \/ WalkVisitDirs
  \/ WalkVisitSymlinks
  \/ Walk
  \/ walkEnter
  \/ iterateImmediateChildren
  \/ iterateDone
  \/ walkBasicVisit
  \/ walkReturn
  \/ WalkFinish

FilterSpec == FilterInit /\ [][FilterNext]_vars

\* ------------------------------------------------------ Walk called again
\* the calls of Walk on one Walk object after the first
MaxRepeats == 1

\* the trees Walk is repeated on: the tree of the tests, a backend whose stat
\* fails, a backend whose lstat answers with metadata and an error
RepeatTrees ==
  { TwoFilesAtRootTwoInSubdir,
    [ents |-> FaultBase, faults |-> [NoFaults EXCEPT !.stat = {<<"d", "x">>}]],
    [ents |-> FaultBase, faults |-> [NoFaults EXCEPT !.errinfo = {<<"a">>}]] }

\* the configurations the Walk object is made with
RepeatOpts ==
  { [DefaultWalkOpts EXCEPT !.Algorithm = a, !.Depth = d, !.FollowSymlinks = f] :
      a \in Algorithms, d \in {-1, 0, 1}, f \in BOOLEAN }

RepeatInit ==
  /\ tree \in RepeatTrees
  /\ Opts \in RepeatOpts
  /\ pc = "idle"
  /\ stack = << >>
  /\ wroot = root
  /\ prev = << >>
  /\ calls = << >>
  /\ reads = << >>
  /\ result = Nil
  /\ ResolverIdle
  /\ PathIdle
  /\ NewIdle

\* Walk is called on a Walk object whose last Walk returned.
WalkAgain ==
  /\ pc = "done"
  /\ Len(prev) < MaxRepeats
  /\ prev' = Append(prev, [calls |-> calls, result |-> result])
  /\ calls' = << >>
  /\ reads' = << >>
  /\ IF Opts.Algorithm \in Recognized \cup SpecAlgorithms
     THEN /\ stack' = <<NewFrame(wroot, 0)>>
          /\ pc' = "walking"
          /\ result' = Nil
     ELSE /\ result' = ErrInvalidAlgorithm
          /\ pc' = "done"
          /\ UNCHANGED stack
  /\ UNCHANGED <<tree, wroot, Opts>>
  /\ UNCHANGED <<resolveVars, pathVars, newVars>>

RepeatNext ==
  \/ Walk
  \/ WalkAgain
  \/ walkEnter
  \/ iterateImmediateChildren
  \/ iterateDone
  \/ walkBasicVisit
  \/ walkDFSVisit
  \/ walkPreOrderDFSVisit
  \/ walkReturn
  \/ WalkFinish

RepeatSpec == RepeatInit /\ [][RepeatNext]_vars

\* ------------------------------------------------- walks over link cycles
\* links to the directory they are in and to the root
AncestorLinkTree ==
  Tree(  (<<>> :> <<F("f", 1), D("d"), L("top", <<>>)>>)
      @@ (<<"d">> :> <<L("back", <<"d">>), F("g", 1), L("up", <<>>)>>))

\* two links to each other, a link to itself, and a link into the cycle
LinkCycleTree ==
  Tree(  (<<>> :> <<L("a", <<"b">>), L("b", <<"a">>), L("self", <<"self">>), D("d")>>)
      @@ (<<"d">> :> <<L("in", <<"a">>), F("g", 1)>>))

CycleTrees == {AncestorLinkTree, LinkCycleTree}

\* the activations of the walk functions the model follows
MaxStackDepth == 3

CycleInit ==
  /\ tree \in CycleTrees
  /\ Opts = DefaultWalkOpts
  /\ pc = "idle"
  /\ stack = << >>
  /\ wroot = root
  /\ prev = << >>
  /\ calls = << >>
  /\ reads = << >>
  /\ result = Nil
  /\ ResolverIdle
  /\ PathIdle
  /\ NewIdle

\* the steps of a walk in progress; a walk function is called for a
\* directory only within the activations the model follows
WalkStep ==
  \/ walkEnter
  \/ Len(stack) < MaxStackDepth /\ iterateImmediateChildren
  \/ iterateDone
  \/ walkBasicVisit
  \/ walkDFSVisit
  \/ Len(stack) < MaxStackDepth /\ walkPreOrderDFSVisit
  \/ walkReturn
  \/ WalkFinish

\* FollowSymlinks stays as DefaultWalkOpts has it: disabled
CycleNext ==
  \/ WalkDepth
  \/ WalkAlgorithm
  \/ WalkVisitDirs
  \/ WalkVisitSymlinks
  \/ Walk
  \/ WalkStep

\* every backend call and every visitor call returns: a walk in progress
\* takes its next step
CycleSpec == CycleInit /\ [][CycleNext]_vars /\ WF_vars(WalkStep)

\* ------------------------------------------------------ symlink resolution
\* A path handed to the path operations is the sequence of its components,
\* an absolute one starting with the root marker "/".  A filesystem names
\* its real directories and files, its symlinks with their targets as
\* written, and what the backend can do:
\*   lstater     "ok", "absent" (afero.Lstater is not implemented), or
\*               "notcalled" (LstatIfPossible falls back to a plain stat)
\*   linkReader  "ok" or "absent" (afero.LinkReader is not implemented)
ErrDoesNotImplement == "doesn't implement required interface"
ErrReadlink == "readlink failed"

Loop == <<"", "loop">>

tmpdir == <<"/", "t">>

Reals(ps) == {<<"/">>, tmpdir} \cup {tmpdir \o q : q \in ps}

\* path_test.go TestResolveAll: two relative links in a chain
RelativeLinks ==
  [ real |-> Reals({ <<"mnt">>, <<"mnt", "nfs">>, <<"mnt", "nfs", "data">>,
                     <<"mnt", "nfs", "data", "x">>, <<"mnt", "nfs", "symlinks">> }),
    links |-> (tmpdir \o <<"mnt", "nfs", "symlinks", "home">> :> <<"..", "data">>)
           @@ (tmpdir \o <<"home">> :> <<".", "mnt", "nfs", "symlinks", "home">>) ]

\* path_test.go TestResolveAllAbsolute: the inner link's target is absolute
AbsoluteInnerLink ==
  [ real |-> RelativeLinks.real,
    links |-> (tmpdir \o <<"mnt", "nfs", "symlinks", "home">> :>
                 tmpdir \o <<"mnt", "nfs", "data">>)
           @@ (tmpdir \o <<"home">> :> <<".", "mnt", "nfs", "symlinks", "home">>) ]

\* a link to itself, two links to each other, and a link into them
CyclicLinks ==
  [ real |-> Reals({ <<"d">>, <<"d", "x">> }),
    links |-> (tmpdir \o <<"self">> :> <<"self">>)
           @@ (tmpdir \o <<"a">> :> <<"b">>)
           @@ (tmpdir \o <<"b">> :> tmpdir \o <<"a">>)
           @@ (tmpdir \o <<"in">> :> <<".", "a">>)
           @@ (tmpdir \o <<"ok">> :> <<"d">>) ]

LinkLayouts == {RelativeLinks, AbsoluteInnerLink, CyclicLinks}

Capabilities == {"ok", "notcalled", "absent"} \X {"ok", "absent"}

ResolveFss ==
  { [real |-> l.real, links |-> l.links, lstater |-> c[1], linkReader |-> c[2]] :
      l \in LinkLayouts, c \in Capabilities }

\* the paths the operations are called on: every real object and every
\* link, and x below each of them
Inputs(fs) ==
  LET named == fs.real \cup DOMAIN fs.links
  IN named \cup {Append(q, "x") : q \in named}

\* Path.IsAbsolute
IsAbsolute(p) == Len(p) > 0 /\ p[1] = "/"

\* filepath.Clean on components: "." is dropped, ".." takes the component
\* before it away (the root has no parent)
RECURSIVE CleanParts(_, _)
CleanParts(acc, rest) ==
  IF rest = << >> THEN acc
  ELSE LET c == Head(rest) IN
       IF c = "." \/ (c = "/" /\ acc # << >>) THEN CleanParts(acc, Tail(rest))
       ELSE IF c = ".."
            THEN IF acc = <<"/">> THEN CleanParts(acc, Tail(rest))
                 ELSE IF acc = << >> \/ Last(acc) = ".."
                      THEN CleanParts(Append(acc, ".."), Tail(rest))
                 ELSE CleanParts(Front(acc), Tail(rest))
       ELSE CleanParts(Append(acc, c), Tail(rest))

Clean(p) == LET c == CleanParts(<< >>, p) IN IF c = << >> THEN <<".">> ELSE c

\* Path.Join with the elements elems
JoinElems(p, elems) == Clean(p \o elems)

\* mutant: the parent of a path is the path
Parent_Self(p) == p

\* Path.Parent
Parent(p) ==
  LET c == Clean(p) IN
  IF c = <<"/">> THEN c
  ELSE IF Len(c) = 1 THEN <<".">>
  ELSE Front(c)

\* The object the operating system finds at the absolute path p: links on the
\* way are followed, the last component's too when deref is set.  Missing
\* when there is none, Loop when more than hops links were followed.
RECURSIVE OsReal(_, _, _, _)
RECURSIVE OsLookup(_, _, _, _, _)
OsReal(fs, p, deref, hops) ==
  IF Len(p) <= 1 THEN <<"/">>
  ELSE OsLookup(fs, OsReal(fs, Front(p), TRUE, hops), Last(p), deref, hops)

\* the entry called name of the directory the operating system found at par
OsLookup(fs, par, name, deref, hops) ==
  IF par \in {Missing, Loop} THEN par
  ELSE IF name = "." THEN par
  ELSE IF name = ".." THEN (IF Len(par) <= 1 THEN par ELSE Front(par))
  ELSE IF Append(par, name) \in DOMAIN fs.links
       THEN IF ~deref THEN Append(par, name)
            ELSE IF hops = 0 THEN Loop
            ELSE OsReal(fs, IF IsAbsolute(fs.links[Append(par, name)])
                            THEN fs.links[Append(par, name)]
                            ELSE par \o fs.links[Append(par, name)],
                        TRUE, hops - 1)
  ELSE IF Append(par, name) \in fs.real THEN Append(par, name)
  ELSE Missing

\* what the backend's stat says of the object found at at
StatAnswer(fs, at, called) ==
  IF at \in {Missing, Loop} THEN <<"none", called, ErrLstat>>
  ELSE IF at \in DOMAIN fs.links THEN <<"symlink", called, Nil>>
  ELSE <<"other", called, Nil>>

\* mutant: the stat follows the last link as well
LstatIfPossible_Dereferences(fs, p) ==
  StatAnswer(fs, OsReal(fs, p, TRUE, MaxLinkHops), fs.lstater = "ok")

\* afero.Lstater.LstatIfPossible as <<kind, lstatCalled, err>>: a backend
\* that cannot lstat answers with a plain, dereferencing stat
LstatIfPossible(fs, p) ==
  StatAnswer(fs, OsReal(fs, p, fs.lstater # "ok", MaxLinkHops), fs.lstater = "ok")

\* what the backend's readlink says of the object found at at
ReadlinkAnswer(fs, at) ==
  IF at \in DOMAIN fs.links THEN <<fs.links[at], Nil>>
  ELSE << << >>, ErrReadlink>>

\* afero.LinkReader.ReadlinkIfPossible as <<target, err>>
ReadlinkIfPossible(fs, p) == ReadlinkAnswer(fs, OsReal(fs, p, FALSE, MaxLinkHops))

\* Path.IsSymlink once LstatIfPossible answered r
IsSymlinkOf(r) ==
  IF r[3] # Nil \/ ~r[2] THEN <<FALSE, r[3]>> ELSE <<r[1] = "symlink", Nil>>

\* mutant: a backend without afero.Lstater is taken to hold no symlinks
PathIsSymlink_NoInterfaceCheck(fs, p) ==
  IF fs.lstater = "absent" THEN <<FALSE, Nil>>
  ELSE IsSymlinkOf(LstatIfPossible(fs, p))

\* Path.IsSymlink as <<isSymlink, err>>
PathIsSymlink(fs, p) ==
  IF fs.lstater = "absent" THEN <<FALSE, ErrDoesNotImplement>>
  ELSE IsSymlinkOf(LstatIfPossible(fs, p))

\* Path.Resolve, the one-level readlink, as <<path, err>>
Resolve(fs, p) ==
  IF fs.linkReader = "absent" THEN << << >>, ErrDoesNotImplement>>
  ELSE ReadlinkIfPossible(fs, p)

\* where the link p leads, Resolve having answered rd: an absolute target
\* as it is, a relative one joined to the link's parent
LinkDestination(p, rd) ==
  IF rd[2] # Nil THEN <<p, TRUE, rd[2]>>
  ELSE IF IsAbsolute(rd[1]) THEN <<rd[1], TRUE, Nil>>
  ELSE <<JoinElems(Parent(p), rd[1]), TRUE, Nil>>

\* What the scan does at the prefix p, IsSymlink having answered is:
\* <<path, isSymlink, err>>
resolveIfSymlinkOf(fs, p, is) ==
  IF is[2] # Nil THEN <<p, FALSE, is[2]>>
  ELSE IF ~is[1] THEN <<p, FALSE, Nil>>
  ELSE LinkDestination(p, Resolve(fs, p))

resolveIfSymlink(fs, p) == resolveIfSymlinkOf(fs, p, PathIsSymlink(fs, p))

\* One call of resolveAllHelper up to its return or its recursive call: the
\* prefixes are scanned from the left, from prefix i on; the first that
\* fails ends the call with the error, the first that is a link makes the
\* call recurse on the link's destination joined with the rest; with
\* neither, p is returned.
\*   [kind |-> "return", path, err]  or  [kind |-> "recurse", path]
RECURSIVE resolveAllScan(_, _, _)
RECURSIVE resolveAllScanAt(_, _, _, _)
resolveAllScan(fs, p, i) ==
  IF i > Len(p) THEN [kind |-> "return", path |-> p, err |-> Nil]
  ELSE resolveAllScanAt(fs, p, i, resolveIfSymlink(fs, SubSeq(p, 1, i)))

resolveAllScanAt(fs, p, i, r) ==
  IF r[3] # Nil THEN [kind |-> "return", path |-> p, err |-> r[3]]
  ELSE IF r[2] THEN [kind |-> "recurse", err |-> Nil,
                     path |-> JoinElems(r[1], SubSeq(p, i + 1, Len(p)))]
  ELSE resolveAllScan(fs, p, i + 1)

\* the recursion of resolveAllHelper the model follows
MaxResolveDepth == 6

ResolveInit ==
  /\ tree = TwoFilesAtRootTwoInSubdir
  /\ Opts = DefaultWalkOpts
  /\ pc = "idle"
  /\ stack = << >>
  /\ wroot = root
  /\ prev = << >>
  /\ calls = << >>
  /\ reads = << >>
  /\ result = Nil
  /\ rfs \in ResolveFss
  /\ rinput \in Inputs(rfs)
  /\ rop = "none"
  /\ rpath = << >>
  /\ rpc = "idle"
  /\ rdepth = 0
  /\ rresult = NoResult
  /\ rother = << >>
  /\ PathIdle
  /\ NewIdle

\* Path.IsSymlink is called on the path.
CallIsSymlink ==
  /\ rpc = "idle"
  /\ rop' = "IsSymlink"
  /\ \E r \in {PathIsSymlink(rfs, rinput)} : rresult' = [val |-> r[1], err |-> r[2]]
  /\ rpc' = "done"
  /\ UNCHANGED <<rfs, rinput, rpath, rdepth, rother>>
  /\ UNCHANGED <<walkVars, pathVars, newVars>>

\* Path.Resolve is called on the path.
CallResolve ==
  /\ rpc = "idle"
  /\ rop' = "Resolve"
  /\ \E r \in {Resolve(rfs, rinput)} : rresult' = [val |-> r[1], err |-> r[2]]
  /\ rpc' = "done"
  /\ UNCHANGED <<rfs, rinput, rpath, rdepth, rother>>
  /\ UNCHANGED <<walkVars, pathVars, newVars>>

\* Path.Equals once Resolve answered for the receiver and for the other path
equalsOf(selfResolved, otherResolved) ==
  IF selfResolved[2] # Nil THEN <<FALSE, selfResolved[2]>>
  ELSE IF otherResolved[2] # Nil THEN <<FALSE, otherResolved[2]>>
  ELSE <<selfResolved[1] = otherResolved[1], Nil>>

\* Path.Equals as <<equal, err>>
PathEquals(fs, p, other) == equalsOf(Resolve(fs, p), Resolve(fs, other))

\* Path.Equals is called on the path with another path of the filesystem.
CallEquals ==
  /\ rpc = "idle"
  /\ rop' = "Equals"
  /\ \E other \in Inputs(rfs) :
       /\ rother' = other
       /\ \E r \in {PathEquals(rfs, rinput, other)} :
            rresult' = [val |-> r[1], err |-> r[2]]
  /\ rpc' = "done"
  /\ UNCHANGED <<rfs, rinput, rpath, rdepth>>
  /\ UNCHANGED <<walkVars, pathVars, newVars>>

\* Path.ResolveAll is called on the path: it calls resolveAllHelper.
ResolveAll ==
  /\ rpc = "idle"
  /\ rop' = "ResolveAll"
  /\ rpath' = rinput
  /\ rdepth' = 1
  /\ rpc' = "running"
  /\ UNCHANGED <<rfs, rinput, rresult, rother>>
  /\ UNCHANGED <<walkVars, pathVars, newVars>>

\* The innermost resolveAllHelper scans its path: it calls itself on where
\* the first link leads, or it returns, and then every caller returns what
\* its recursive call returned, ResolveAll too.
resolveAllHelper ==
  /\ rpc = "running"
  /\ \E s \in {resolveAllScan(rfs, rpath, 1)} :
       IF s.kind = "recurse"
       THEN /\ rdepth < MaxResolveDepth
            /\ rpath' = s.path
            /\ rdepth' = rdepth + 1
            /\ UNCHANGED <<rpc, rresult>>
       ELSE /\ rresult' = [val |-> s.path, err |-> s.err]
            /\ rdepth' = 0
            /\ rpc' = "done"
            /\ UNCHANGED rpath
  /\ UNCHANGED <<rfs, rinput, rop, rother>>
  /\ UNCHANGED <<walkVars, pathVars, newVars>>

ResolveNext ==
  \/ CallIsSymlink
  \/ CallResolve
  \/ CallEquals
  \/ ResolveAll
  \/ resolveAllHelper

ResolveSpec == ResolveInit /\ [][ResolveNext]_vars

\* ---------------------------------------------------------- Path.RelativeTo
\* The text of a path is the sequence of its characters.
Chars == {"/", ".", "a", " "}

\* the longest receiver and the longest argument of RelativeTo
MaxThisLen == 4
MaxOtherLen == 3

Texts(n) == UNION {[1..k -> Chars] : k \in 0..n}

\* strings.TrimLeft / strings.TrimRight with the one-character cutset c
RECURSIVE TrimLeft(_, _)
TrimLeft(s, c) ==
  IF s # << >> /\ Head(s) = c THEN TrimLeft(Tail(s), c) ELSE s

RECURSIVE TrimRight(_, _)
TrimRight(s, c) ==
  IF s # << >> /\ s[Len(s)] = c THEN TrimRight(Front(s), c) ELSE s

\* strings.TrimSpace
TrimSpace(s) == TrimRight(TrimLeft(s, " "), " ")

\* strings.HasPrefix / strings.HasSuffix
HasPrefix(s, pre) == Len(s) >= Len(pre) /\ SubSeq(s, 1, Len(pre)) = pre
HasSuffix(s, suf) ==
  Len(s) >= Len(suf) /\ SubSeq(s, Len(s) - Len(suf) + 1, Len(s)) = suf

\* strings.TrimPrefix / strings.TrimSuffix: one occurrence is cut
TrimPrefix(s, pre) ==
  IF HasPrefix(s, pre) THEN SubSeq(s, Len(pre) + 1, Len(s)) ELSE s
TrimSuffix(s, suf) ==
  IF HasSuffix(s, suf) THEN SubSeq(s, 1, Len(s) - Len(suf)) ELSE s

\* the last statement of normalizePathString
trimOneSeparator(path) ==
  IF Len(path) > 1 THEN TrimSuffix(path, <<"/">>) ELSE path

normalizePathString(path) ==
  trimOneSeparator(TrimRight(TrimPrefix(TrimSpace(path), <<".", "/">>), " "))

\* strings.Split(s, "/"): parts are the parts closed so far, cur the one open
RECURSIVE SplitFrom(_, _, _)
SplitFrom(parts, cur, rest) ==
  IF rest = << >> THEN Append(parts, cur)
  ELSE IF Head(rest) = "/" THEN SplitFrom(Append(parts, cur), << >>, Tail(rest))
  ELSE SplitFrom(parts, Append(cur, Head(rest)), Tail(rest))

Split(s) == SplitFrom(<< >>, << >>, s)

\* strings.Join(parts, "/")
RECURSIVE StringsJoin(_)
StringsJoin(parts) ==
  IF parts = << >> THEN << >>
  ELSE IF Len(parts) = 1 THEN parts[1]
  ELSE parts[1] \o <<"/">> \o StringsJoin(Tail(parts))

\* the trailing empty parts are cut, the first part stays
RECURSIVE normalizePathParts(_)
normalizePathParts(path) ==
  IF Len(path) > 1 /\ path[Len(path)] = << >>
  THEN normalizePathParts(Front(path))
  ELSE path

\* the parts RelativeTo works on
PartsOf(path) == normalizePathParts(Split(normalizePathString(path)))

ErrDoesNotStartWith == "does not start with"

\* RelativeTo's loop over otherParts, from the idx-th part on: "mismatch"
\* at a part that differs, "panic" at an index thisParts does not have,
\* "ok" when the loop ends
RECURSIVE relativeToLoop(_, _, _)
relativeToLoop(thisParts, otherParts, idx) ==
  IF idx > Len(otherParts) THEN "ok"
  ELSE IF idx > Len(thisParts) THEN "panic"
  ELSE IF thisParts[idx] # otherParts[idx] THEN "mismatch"
  ELSE relativeToLoop(thisParts, otherParts, idx + 1)

\* thisParts[relativeBase+1:], relativeBase being the last index of otherParts
relativePath(thisParts, otherParts) ==
  SubSeq(thisParts, Len(otherParts) + 1, Len(thisParts))

dotIfEmpty(rel) ==
  IF Len(rel) = 0 \/ (Len(rel) = 1 /\ rel[1] = << >>) THEN << <<".">> >> ELSE rel

\* RelativeTo once the loop ended with outcome
relativeToResult(this, thisParts, otherParts, outcome) ==
  CASE outcome = "panic" -> [kind |-> "panic", val |-> << >>, err |-> Nil]
    [] outcome = "mismatch" ->
         [kind |-> "return", val |-> this, err |-> ErrDoesNotStartWith]
    [] OTHER ->
         [kind |-> "return", err |-> Nil,
          val |-> StringsJoin(dotIfEmpty(relativePath(thisParts, otherParts)))]

relativeToParts(this, thisParts, otherParts) ==
  relativeToResult(this, thisParts, otherParts,
                   relativeToLoop(thisParts, otherParts, 1))

\* Path.RelativeTo: [kind |-> "return", val, err], or kind "panic" when the
\* goroutine dies of an index out of range
PathRelativeTo(this, other) == relativeToParts(this, PartsOf(this), PartsOf(other))

\* filepath.Clean on the parts of a text: empty parts and "." are dropped,
\* ".." takes the part before it away; above the root it is dropped, at
\* the head of a relative path it stays
RECURSIVE cleanTextParts(_, _, _)
RECURSIVE cleanTextPart(_, _, _, _)
cleanTextParts(acc, rest, rooted) ==
  IF rest = << >> THEN acc
  ELSE cleanTextPart(acc, Head(rest), Tail(rest), rooted)

cleanTextPart(acc, c, rest, rooted) ==
  IF c = << >> \/ c = <<".">> THEN cleanTextParts(acc, rest, rooted)
  ELSE IF c # <<".", ".">> THEN cleanTextParts(Append(acc, c), rest, rooted)
  ELSE IF acc # << >> /\ Last(acc) # <<".", ".">>
       THEN cleanTextParts(Front(acc), rest, rooted)
  ELSE IF rooted THEN cleanTextParts(acc, rest, rooted)
  ELSE cleanTextParts(Append(acc, c), rest, rooted)

cleanedText(parts, rooted) ==
  IF rooted THEN <<"/">> \o StringsJoin(parts)
  ELSE IF parts = << >> THEN <<".">>
  ELSE StringsJoin(parts)

\* filepath.Clean
CleanText(s) ==
  cleanedText(cleanTextParts(<< >>, Split(s), HasPrefix(s, <<"/">>)),
              HasPrefix(s, <<"/">>))

\* Path.Join with one element, on texts: filepath.Join leaves empty
\* elements out and cleans what it joined
JoinText(p, elem) ==
  IF p = << >> /\ elem = << >> THEN << >>
  ELSE IF p = << >> THEN CleanText(elem)
  ELSE IF elem = << >> THEN CleanText(p)
  ELSE CleanText(p \o <<"/">> \o elem)

RelativeInit ==
  /\ tree = TwoFilesAtRootTwoInSubdir
  /\ Opts = DefaultWalkOpts
  /\ pc = "idle"
  /\ stack = << >>
  /\ wroot = root
  /\ prev = << >>
  /\ calls = << >>
  /\ reads = << >>
  /\ result = Nil
  /\ ResolverIdle
  /\ NewIdle
  /\ pthis \in Texts(MaxThisLen)
  /\ pother \in Texts(MaxOtherLen)
  /\ pfiles = << >>
  /\ pop = "none"
  /\ pret = NoResult

\* Path.RelativeTo is called on the path with the other path.
RelativeTo ==
  /\ pop = "none"
  /\ pop' = "RelativeTo"
  /\ \E r \in {PathRelativeTo(pthis, pother)} : pret' = r
  /\ UNCHANGED <<pthis, pother, pfiles>>
  /\ UNCHANGED <<walkVars, resolveVars, newVars>>

RelativeNext == RelativeTo

RelativeSpec == RelativeInit /\ [][RelativeNext]_vars

\* --------------------------------------------------------------- Path.Rename
\* The backend's files are a function from their names to their content,
\* Absent where there is no file of the name.
Absent == "absent"
ErrNotExist == "file does not exist"
ErrRename == "rename refused"

FileNames == { <<"a">>, <<"b">>, <<"d", "/", "a">> }
Contents == {"hello world!", "bye"}

Backends == [FileNames -> Contents \cup {Absent}]

\* afero.Fs.Rename as <<files, err>>: there is no renaming a file that is
\* not there, the backend may refuse (a read-only backend, a destination it
\* does not replace), renaming a file to its own name changes nothing, and
\* otherwise the content moves to the new name
FsRename(files, oldname, newname, refuses) ==
  IF files[oldname] = Absent THEN <<files, ErrNotExist>>
  ELSE IF refuses THEN <<files, ErrRename>>
  ELSE IF oldname = newname THEN <<files, Nil>>
  ELSE <<[files EXCEPT ![newname] = files[oldname], ![oldname] = Absent], Nil>>

\* mutant: the receiver keeps its text, the new name is only returned
renamedPath_ReceiverKept(path, newname, err) == path

\* Path.path once the backend answered err
renamedPath(path, newname, err) == IF err # Nil THEN path ELSE newname

RenameInit ==
  /\ tree = TwoFilesAtRootTwoInSubdir
  /\ Opts = DefaultWalkOpts
  /\ pc = "idle"
  /\ stack = << >>
  /\ wroot = root
  /\ prev = << >>
  /\ calls = << >>
  /\ reads = << >>
  /\ result = Nil
  /\ ResolverIdle
  /\ NewIdle
  /\ pfiles \in Backends
  /\ pthis \in FileNames
  /\ pother = << >>
  /\ pop = "none"
  /\ pret = NoResult

\* Path.Rename is called on the Path object with newname.
Rename ==
  /\ \E newname \in FileNames, refuses \in BOOLEAN :
       \E r \in {FsRename(pfiles, pthis, newname, refuses)} :
         /\ pfiles' = r[1]
         /\ pret' = [val |-> << >>, err |-> r[2]]
         /\ pthis' = renamedPath(pthis, newname, r[2])
         /\ pother' = newname
  /\ pop' = "Rename"
  /\ UNCHANGED <<walkVars, resolveVars, newVars>>

\* Path.ReadFile is called on the Path object.
ReadFile ==
  /\ pop' = "ReadFile"
  /\ pret' = IF pfiles[pthis] = Absent
             THEN [val |-> << >>, err |-> ErrNotExist]
             ELSE [val |-> pfiles[pthis], err |-> Nil]
  /\ UNCHANGED <<pthis, pother, pfiles>>
  /\ UNCHANGED <<walkVars, resolveVars, newVars>>

RenameNext ==
  \/ Rename
  \/ ReadFile

RenameSpec == RenameInit /\ [][RenameNext]_vars

\* ------------------------------------------------------ NewWalk, NewWalkWithOpts
ErrRootNil == "root path can't be nil"
ErrOptsNil == "opts can't be nil"

\* the roots handed to the constructors: none, the walk root, a directory
\* below it
Roots == {NilPointer, [path |-> root], [path |-> <<"subdir">>]}

\* walk_test.go TestNewWalk: options that all differ from the defaults
TestOpts ==
  [ Depth |-> MaxDepthOpt, Algorithm |-> AlgorithmDepthFirst, FollowSymlinks |-> TRUE,
    MinimumFileSize |-> 1, MaximumFileSize |-> MaxSizeOpt,
    VisitFiles |-> FALSE, VisitDirs |-> FALSE, VisitSymlinks |-> FALSE ]

\* the options handed to NewWalkWithOpts
OptsArgs == {NilPointer, DefaultWalkOpts, TestOpts}

\* mutant: the options are not looked at
newWalkWithOpts_OptsUnchecked(r, opts) ==
  IF r = NilPointer THEN <<NilPointer, ErrRootNil>>
  ELSE <<[Opts |-> opts, root |-> r], Nil>>

\* NewWalkWithOpts as <<walk, err>>
newWalkWithOpts(r, opts) ==
  IF r = NilPointer THEN <<NilPointer, ErrRootNil>>
  ELSE IF opts = NilPointer THEN <<NilPointer, ErrOptsNil>>
  ELSE <<[Opts |-> opts, root |-> r], Nil>>

\* NewWalk has made its configuration from DefaultWalkOpts and is about to
\* apply the option functions; NewWalkWithOpts is about to be called.
NewWalkInit ==
  /\ tree = TwoFilesAtRootTwoInSubdir
  /\ Opts = DefaultWalkOpts
  /\ pc = "idle"
  /\ stack = << >>
  /\ wroot = root
  /\ prev = << >>
  /\ calls = << >>
  /\ reads = << >>
  /\ result = Nil
  /\ ResolverIdle
  /\ PathIdle
  /\ nroot \in Roots
  /\ nopts \in OptsArgs
  /\ npc = "args"
  /\ nwalk = NilPointer
  /\ nerr = Nil

\* NewWalk, its option functions applied, returns what NewWalkWithOpts
\* makes of the root and the configuration.
NewWalk ==
  /\ npc = "args"
  /\ npc' = "NewWalk"
  /\ \E r \in {newWalkWithOpts(nroot, Opts)} :
       /\ nwalk' = r[1]
       /\ nerr' = r[2]
  /\ UNCHANGED <<nroot, nopts>>
  /\ UNCHANGED <<walkVars, resolveVars, pathVars>>

\* NewWalkWithOpts is called with the root and the options.
NewWalkWithOpts ==
  /\ npc = "args"
  /\ npc' = "NewWalkWithOpts"
  /\ \E r \in {newWalkWithOpts(nroot, nopts)} :
       /\ nwalk' = r[1]
       /\ nerr' = r[2]
  /\ UNCHANGED <<nroot, nopts>>
  /\ UNCHANGED <<walkVars, resolveVars, pathVars>>

\* an option function of NewWalk's argument list is applied
NewWalkOption ==
  /\ npc = "args"
  /\ \/ WalkDepth
     \/ WalkAlgorithm
     \/ WalkFollowSymlinks
     \/ WalkMinimumFileSize
     \/ WalkMaximumFileSize
     \/ WalkVisitFiles
     \/ WalkVisitDirs
     \/ WalkVisitSymlinks

NewWalkNext ==
  \/ NewWalkOption
  \/ NewWalk
  \/ NewWalkWithOpts

NewWalkSpec == NewWalkInit /\ [][NewWalkNext]_vars

\* ------------------------------------------------- what the claims speak of
NCalls == Len(calls)
PathOf(k) == calls[k].path
Visited == {calls[k].path : k \in 1..Len(calls)}
VisitOrder == [k \in 1..Len(calls) |-> calls[k].path]
AllContinue == \A k \in 1..Len(calls) : calls[k].ret = Nil
\* the visitor returned skip-subtree for p and continue for everything else
SkipOnlyAt(p) ==
  \A k \in 1..Len(calls) :
    calls[k].ret = IF calls[k].path = p THEN ErrWalkSkipSubtree ELSE Nil
WalkRan == pc = "done" /\ Opts.Algorithm \in Recognized \cup SpecAlgorithms

\* The classification the walk works with: by the link itself, or by what it
\* leads to when links are followed.
KindOf(t, p, follow) ==
  LET rp == RealPath(t, p, follow, MaxLinkHops) IN
  IF rp = Missing THEN "none" ELSE InfoAt(t, rp).kind
SizeOf(t, p, follow) ==
  LET rp == RealPath(t, p, follow, MaxLinkHops) IN
  IF rp = Missing THEN 0 ELSE InfoAt(t, rp).size

\* Every filesystem object below directory d, as the path it has below d.
RECURSIVE Below(_, _, _)
Below(t, d, follow) ==
  LET rd == RealPath(t, d, TRUE, MaxLinkHops)
      kids == { Append(d, t.ents[rd][k].name) :
                  k \in {n \in 1..Len(t.ents[rd]) : t.ents[rd][n].name # "."} }
  IN kids \cup UNION { IF KindOf(t, c, follow) = "dir" THEN Below(t, c, follow) ELSE {} :
                        c \in kids }

Objects(t, follow) == Below(t, root, follow)

\* No backend call of a walk over t can fail.
BackendSound(t, follow) ==
  /\ t.faults = NoFaults
  /\ \A p \in Objects(t, follow) : KindOf(t, p, follow) # "none"

\* The objects the configuration asks for: within the depth limit and
\* admitted by the query filter.
Admitted(t, o) ==
  { p \in Objects(t, o.FollowSymlinks) :
      /\ o.Depth < 0 \/ Len(p) <= o.Depth + 1
      /\ passesQuerySpecification(o, [kind |-> KindOf(t, p, o.FollowSymlinks),
                                      size |-> SizeOf(t, p, o.FollowSymlinks)]) }

\* The place of p in its directory's listing.
Pos(t, p) ==
  LET rd == RealPath(t, Front(p), TRUE, MaxLinkHops) IN
  CHOOSE k \in 1..Len(t.ents[rd]) : t.ents[rd][k].name = Last(p)

\* p and q part ways at some component, and p's branch is listed first there.
BranchesBefore(t, p, q) ==
  \E k \in 1..Len(p) :
    /\ k <= Len(q)
    /\ SubSeq(p, 1, k - 1) = SubSeq(q, 1, k - 1)
    /\ p[k] # q[k]
    /\ Pos(t, SubSeq(p, 1, k)) < Pos(t, SubSeq(q, 1, k))

Unrelated(p, q) == ~IsPrefix(p, q) /\ ~IsPrefix(q, p)

\* ------------------------------------------------------------------ claims

\* C1: in every algorithm, once the visitor has returned ErrStopWalk it is
\* never invoked again, and Walk returns nil; returned on the first call,
\* that call is the only one.
C1_StopWalk ==
  \A k \in 1..Len(calls) :
    calls[k].ret = ErrStopWalk =>
      /\ k = Len(calls)
      /\ pc = "done" => result = Nil

C1_Witness ==
  /\ pc = "done"
  /\ tree = TwoFilesAtRootTwoInSubdir
  /\ Len(calls) = 1
  /\ calls[1].ret = ErrStopWalk
  /\ result = Nil

\* C2: in every algorithm, an ordinary error returned by the visitor ends the
\* walk there, at whatever recursion level, and Walk returns that very error.
C2_WalkFuncErr ==
  \A k \in 1..Len(calls) :
    calls[k].ret = AwwShoot =>
      /\ k = Len(calls)
      /\ pc = "done" => result = AwwShoot

C2_Witness ==
  /\ pc = "done"
  /\ Len(calls) > 1
  /\ calls[Len(calls)].ret = AwwShoot
  /\ Len(calls[Len(calls)].path) > 1
  /\ result = AwwShoot

\* C3: with the three visit flags set, no depth limit, no size limit and a
\* visitor that always continues, every algorithm hands the visitor exactly
\* the objects below the root, each of them once; five calls on the tree of
\* two files and a directory of two files.
C3_VisitsEverything ==
  ( /\ WalkRan
    /\ Opts.VisitFiles /\ Opts.VisitDirs /\ Opts.VisitSymlinks
    /\ Opts.Depth = -1
    /\ Opts.MinimumFileSize = -1 /\ Opts.MaximumFileSize = -1
    /\ AllContinue
    /\ BackendSound(tree, Opts.FollowSymlinks) )
  => /\ result = Nil
     /\ Visited = Objects(tree, Opts.FollowSymlinks)
     /\ Len(calls) = Cardinality(Visited)
     /\ tree = TwoFilesAtRootTwoInSubdir => Len(calls) = 5

C3_Witness ==
  /\ pc = "done"
  /\ Opts = [DefaultWalkOpts EXCEPT !.Algorithm = AlgorithmDepthFirst]
  /\ tree = TwoFilesAtRootTwoInSubdir
  /\ AllContinue
  /\ Len(calls) = 5

\* C4: with Depth = N >= 0 no directory deeper than N is ever read and no
\* visited node lies more than N+1 levels below the root, while the admitted
\* nodes down to level N+1 are all visited; Depth = 0 on the tree of two
\* files and a directory of two files gives three calls.
C4_DepthLimit ==
  Opts.Depth >= 0 =>
    /\ \A k \in 1..Len(reads) : Len(reads[k]) <= Opts.Depth
    /\ \A k \in 1..Len(calls) : Len(calls[k].path) <= Opts.Depth + 1
    /\ (WalkRan /\ AllContinue /\ BackendSound(tree, Opts.FollowSymlinks))
         => /\ Visited = Admitted(tree, Opts)
            /\ Len(calls) = Cardinality(Visited)
    /\ ( /\ WalkRan /\ AllContinue
         /\ tree = TwoFilesAtRootTwoInSubdir
         /\ Opts.Depth = 0
         /\ Opts.VisitFiles /\ Opts.VisitDirs )
         => Len(calls) = 3

C4_Witness ==
  /\ pc = "done"
  /\ tree = TwoFilesAtRootTwoInSubdir
  /\ Opts.Depth = 0
  /\ Opts.FollowSymlinks
  /\ Opts.VisitFiles /\ Opts.VisitDirs
  /\ AllContinue
  /\ Len(calls) = 3
  /\ reads = <<root>>

\* the paths visited before call a
Earlier(a) == {calls[b].path : b \in 1..(a - 1)}

\* C5: post-order depth-first: whatever is admitted in the subdirectories of
\* a directory is visited before any immediate child of that directory, and
\* the immediate children are visited in the order they were listed; on
\* {1.txt, 2.txt, 3.txt, subdir/4.txt} the order is subdir/4.txt, 1.txt,
\* 2.txt, 3.txt, subdir.
C5_PostOrder ==
  Opts.Algorithm = AlgorithmDepthFirst =>
    /\ \A a, b \in 1..Len(calls) :
         IsProperPrefix(Front(PathOf(a)), Front(PathOf(b))) => b < a
    /\ \A a \in 1..Len(calls) : \A x \in Admitted(tree, Opts) :
         IsProperPrefix(Front(PathOf(a)), Front(x)) => x \in Earlier(a)
    /\ \A a, b \in 1..Len(calls) :
         (a < b /\ Front(PathOf(a)) = Front(PathOf(b)))
           => Pos(tree, PathOf(a)) < Pos(tree, PathOf(b))
    /\ ( /\ pc = "done" /\ AllContinue
         /\ tree = OrderTree
         /\ Opts.Depth = -1 /\ Opts.VisitFiles /\ Opts.VisitDirs )
         => VisitOrder = << <<"subdir", "4.txt">>, <<"1.txt">>, <<"2.txt">>,
                            <<"3.txt">>, <<"subdir">> >>

C5_Witness ==
  /\ pc = "done"
  /\ tree = OrderTree
  /\ Opts = [DefaultWalkOpts EXCEPT !.Algorithm = AlgorithmDepthFirst]
  /\ VisitOrder = << <<"subdir", "4.txt">>, <<"1.txt">>, <<"2.txt">>,
                     <<"3.txt">>, <<"subdir">> >>

\* C6: pre-order depth-first: a node is visited before anything below it,
\* and the walk goes depth-first through the children in the order they were
\* listed; on {1.txt, 2.txt, 3.txt, subdir/4.txt} the order is 1.txt, 2.txt,
\* 3.txt, subdir, subdir/4.txt.
C6_PreOrder ==
  Opts.Algorithm = AlgorithmPreOrderDepthFirst =>
    /\ \A a, b \in 1..Len(calls) :
         IsProperPrefix(PathOf(a), PathOf(b)) => a < b
    /\ \A a, b \in 1..Len(calls) :
         (a < b /\ Unrelated(PathOf(a), PathOf(b)))
           => BranchesBefore(tree, PathOf(a), PathOf(b))
    /\ ( /\ pc = "done" /\ AllContinue
         /\ tree = OrderTree
         /\ Opts.Depth = -1 /\ Opts.VisitFiles /\ Opts.VisitDirs )
         => VisitOrder = << <<"1.txt">>, <<"2.txt">>, <<"3.txt">>, <<"subdir">>,
                            <<"subdir", "4.txt">> >>

C6_Witness ==
  /\ pc = "done"
  /\ tree = OrderTree
  /\ Opts = [DefaultWalkOpts EXCEPT !.Algorithm = AlgorithmPreOrderDepthFirst]
  /\ VisitOrder = << <<"1.txt">>, <<"2.txt">>, <<"3.txt">>, <<"subdir">>,
                     <<"subdir", "4.txt">> >>

\* C7: the Basic algorithm takes the children in the order the backend lists
\* them; a directory is walked through, everything admitted below it being
\* visited, before the directory itself is visited, and the other children
\* are visited in the same pass; for 1, 2/ (holding 3), 4 the order is
\* 1, 2/3, 2, 4.
C7_Basic ==
  Opts.Algorithm = AlgorithmBasic =>
    /\ \A a, b \in 1..Len(calls) :
         IsProperPrefix(PathOf(a), PathOf(b)) => b < a
    /\ \A a \in 1..Len(calls) :
         (\A b \in 1..(a - 1) : calls[b].ret = Nil)
           => \A x \in Admitted(tree, Opts) :
                IsProperPrefix(PathOf(a), x) => x \in Earlier(a)
    /\ \A a, b \in 1..Len(calls) :
         (a < b /\ Unrelated(PathOf(a), PathOf(b)))
           => BranchesBefore(tree, PathOf(a), PathOf(b))
    /\ ( /\ pc = "done" /\ AllContinue
         /\ tree = BasicOrderTree
         /\ Opts.Depth = -1 /\ Opts.VisitFiles /\ Opts.VisitDirs )
         => VisitOrder = << <<"1">>, <<"2", "3">>, <<"2">>, <<"4">> >>

C7_Witness ==
  /\ pc = "done"
  /\ tree = BasicOrderTree
  /\ Opts = DefaultWalkOpts
  /\ VisitOrder = << <<"1">>, <<"2", "3">>, <<"2">>, <<"4">> >>

\* the directories for which the visitor returned skip-subtree
SkippedDirs ==
  { calls[k].path : k \in {n \in 1..Len(calls) :
      calls[n].ret = ErrWalkSkipSubtree /\ IsDir(calls[n].info)} }

\* the visitor returned nothing but continue, and skip-subtree on directories
OnlyDirSkips ==
  \A k \in 1..Len(calls) :
    \/ calls[k].ret = Nil
    \/ calls[k].ret = ErrWalkSkipSubtree /\ IsDir(calls[k].info)

\* C8: pre-order: after the visitor returned skip-subtree for a directory,
\* nothing below that directory is read or visited, the directory's siblings
\* are still walked, and Walk does not return the signal as an error.
C8_PreOrderSkipsSubtree ==
  Opts.Algorithm = AlgorithmPreOrderDepthFirst =>
    /\ result # ErrWalkSkipSubtree
    /\ \A d \in SkippedDirs :
         /\ \A k \in 1..Len(reads) : ~IsPrefix(d, reads[k])
         /\ \A k \in 1..Len(calls) : ~IsProperPrefix(d, calls[k].path)
    /\ (pc = "done" /\ OnlyDirSkips /\ BackendSound(tree, Opts.FollowSymlinks))
         => /\ result = Nil
            /\ Visited = { x \in Admitted(tree, Opts) :
                             \A d \in SkippedDirs : ~IsProperPrefix(d, x) }

C8_Witness ==
  /\ pc = "done"
  /\ Opts.Algorithm = AlgorithmPreOrderDepthFirst
  /\ tree = MixedTree
  /\ SkippedDirs = {<<"b">>}
  /\ Visited = {<<"b">>, <<"a">>, <<"c">>, <<"z">>}
  /\ result = Nil

SkipPoint == <<"subdir1", "subdir2", "foo.txt">>

\* the configuration of TestErrWalkSkipSubtree
SkipTestSetup ==
  /\ pc = "done"
  /\ tree = SkipTree
  /\ Opts.Depth = -1
  /\ Opts.VisitFiles
  /\ ~Opts.VisitDirs

OnlySkips ==
  \A k \in 1..Len(calls) : calls[k].ret \in {Nil, ErrWalkSkipSubtree}

C12_InvalidAlgorithm ==
  Opts.Algorithm \notin
      {AlgorithmBasic, AlgorithmDepthFirst, AlgorithmPreOrderDepthFirst} =>
    /\ pc # "walking"
    /\ stack = << >>
    /\ reads = << >>
    /\ calls = << >>
    /\ pc = "done" => result = ErrInvalidAlgorithm

C12_Witness ==
  /\ pc = "done"
  /\ Opts = [DefaultWalkOpts EXCEPT !.Algorithm = ConfusedWandering, !.Depth = 1,
                                    !.VisitDirs = FALSE, !.FollowSymlinks = TRUE]
  /\ tree = MixedTree
  /\ result = ErrInvalidAlgorithm
  /\ reads = << >>
  /\ calls = << >>

\* the claim's own reading of the filter for a regular file
FileAdmitted(o, size) ==
  /\ o.VisitFiles
  /\ o.MinimumFileSize < 0 \/ size >= o.MinimumFileSize
  /\ o.MaximumFileSize < 0 \/ size <= o.MaximumFileSize

\* the objects of the walked tree that are of kind k
OfKind(k) ==
  { p \in Objects(tree, Opts.FollowSymlinks) : KindOf(tree, p, Opts.FollowSymlinks) = k }

CompleteWalk ==
  WalkRan /\ AllContinue /\ Opts.Depth = -1 /\ BackendSound(tree, Opts.FollowSymlinks)

\* C13: a regular file is handed to the visitor iff VisitFiles is set and its
\* size is not below a non-negative MinimumFileSize and not above a
\* non-negative MaximumFileSize, both bounds included: a file of exactly the
\* minimum or the maximum size is visited, a file one byte outside is not.
C13_FileFilter ==
  /\ \A k \in 1..Len(calls) :
        IsFile(calls[k].info) => FileAdmitted(Opts, calls[k].info.size)
  /\ CompleteWalk =>
        \A p \in OfKind("file") :
          p \in Visited <=> FileAdmitted(Opts, SizeOf(tree, p, Opts.FollowSymlinks))

C13_Witness ==
  /\ pc = "done"
  /\ tree = SizeTree
  /\ Opts = [DefaultWalkOpts EXCEPT !.MinimumFileSize = 1, !.MaximumFileSize = 3]
  /\ AllContinue
  /\ Visited \cap OfKind("file") = {<<"f1">>, <<"f2">>, <<"f3">>, <<"d", "g">>}

\* C14: a directory is handed to the visitor iff VisitDirs is set and a
\* symlink iff VisitSymlinks is set; the size bounds do not bear on them,
\* whatever size their metadata reports.
C14_DirAndSymlinkFilter ==
  /\ \A k \in 1..Len(calls) :
        /\ IsDir(calls[k].info) => Opts.VisitDirs
        /\ IsSymlink(calls[k].info) => Opts.VisitSymlinks
  /\ CompleteWalk =>
        /\ \A p \in OfKind("dir") : p \in Visited <=> Opts.VisitDirs
        /\ \A p \in OfKind("symlink") : p \in Visited <=> Opts.VisitSymlinks

C14_Witness ==
  /\ pc = "done"
  /\ tree = SizeTree
  /\ Opts = [DefaultWalkOpts EXCEPT !.MinimumFileSize = 3, !.MaximumFileSize = 3,
                                    !.VisitSymlinks = FALSE]
  /\ AllContinue
  /\ Visited = {<<"f3">>, <<"d", "g">>, <<"d">>, <<"d", "e">>}

BackendErrors == {ErrReadDir, ErrStat, ErrLstat}

\* the innermost walk function is returning e
Failing(s, e) == Len(s) > 0 /\ s[Len(s)].pc = "ret" /\ s[Len(s)].rv = e

\* the answer of the backend call the walk is about to make: <<info, err>>
\* of the stat of the next child, <<NoInfo, err>> of the directory read,
\* <<NoInfo, Nil>> when no backend call is next
BackendAnswer ==
  IF pc # "walking" THEN <<NoInfo, Nil>>
  ELSE IF Top.pc = "enter" /\ ~maxDepthReached(Opts, Top.depth)
       THEN <<NoInfo, ReadDir(tree, Top.dir)[2]>>
  ELSE IF Top.pc = "iter" /\ Top.i <= Len(Top.children)
                         /\ Top.children[Top.i] # Top.dir
       THEN IF Opts.FollowSymlinks THEN Stat(tree, Top.children[Top.i])
                                   ELSE Lstat(tree, Top.children[Top.i])
  ELSE <<NoInfo, Nil>>

\* a backend error on its way up: the visitor is not invoked, and the error
\* is returned by each walk function in turn and then by Walk
ErrorGoesUp ==
  \A e \in BackendErrors :
    Failing(stack, e) =>
      /\ calls' = calls
      /\ Failing(stack', e) \/ (pc' = "done" /\ result' = e)

\* the statement of C15 as it stands: whatever backend call fails, the step
\* that meets the error invokes no visitor and starts to return the error
C15_AnyBackendErrorAborts ==
  [][ /\ BackendAnswer[2] # Nil =>
           calls' = calls /\ Failing(stack', BackendAnswer[2])
      /\ ErrorGoesUp
      /\ \A k \in 1..Len(calls') : calls'[k].err = Nil ]_vars

\* C15: a failed directory read, a failed dereferencing stat, and a failed
\* non-dereferencing stat that left no metadata abort the walk: the visitor
\* is invoked neither for the failing child nor for anything later, and Walk
\* returns that error.  A non-dereferencing stat that returns metadata next
\* to its error does not abort: the child is walked on, and visited with the
\* error as the visitor's third argument.
C15_BackendErrorAborts ==
  [][ /\ (BackendAnswer[2] # Nil /\ (Opts.FollowSymlinks \/ BackendAnswer[1] = NoInfo)) =>
           calls' = calls /\ Failing(stack', BackendAnswer[2])
      /\ (BackendAnswer[2] # Nil /\ ~Opts.FollowSymlinks /\ BackendAnswer[1] # NoInfo) =>
           ~Failing(stack', BackendAnswer[2])
      /\ ErrorGoesUp
      /\ \A k \in 1..Len(calls') :
           calls'[k].err # Nil =>
             /\ ~Opts.FollowSymlinks
             /\ calls'[k].path \in tree.faults.errinfo
             /\ calls'[k].info # NoInfo ]_vars

C15_Witness ==
  /\ pc = "done"
  /\ tree.ents = FaultBase
  /\ tree.faults.readdir = {<<"d">>}
  /\ Opts = DefaultWalkOpts
  /\ calls # << >>
  /\ Visited = {<<"a">>}
  /\ AllContinue
  /\ result = ErrReadDir

\* the walk is about to ask the backend for the metadata of a child
StatIsNext ==
  /\ pc = "walking"
  /\ Top.pc = "iter"
  /\ Top.i <= Len(Top.children)
  /\ Top.children[Top.i] # Top.dir

\* C16: when the backend answers the stat of a child with neither metadata
\* nor an error, the walk aborts with ErrInfoIsNil, which is none of the
\* backend's errors: the visitor is invoked neither for that child nor for
\* anything later, and Walk returns ErrInfoIsNil.
C16_InfoIsNil ==
  [][ /\ ErrInfoIsNil \notin BackendErrors \cup {Nil}
      /\ (StatIsNext /\ BackendAnswer = <<NoInfo, Nil>>) =>
           calls' = calls /\ Failing(stack', ErrInfoIsNil)
      /\ Failing(stack, ErrInfoIsNil) =>
           /\ calls' = calls
           /\ Failing(stack', ErrInfoIsNil) \/ (pc' = "done" /\ result' = ErrInfoIsNil)
      /\ \A k \in 1..Len(calls') : calls'[k].info # NoInfo ]_vars

C16_Witness ==
  /\ pc = "done"
  /\ tree.ents = FaultBase
  /\ tree.faults.nilinfo = {<<"d">>}
  /\ Opts = [DefaultWalkOpts EXCEPT !.FollowSymlinks = TRUE]
  /\ AllContinue
  /\ Visited = {<<"a">>}
  /\ result = ErrInfoIsNil

\* the objects within the depth limit whose links lead nowhere
Dangling(t, o) ==
  { p \in Objects(t, TRUE) :
      /\ o.Depth < 0 \/ Len(p) <= o.Depth + 1
      /\ KindOf(t, p, TRUE) = "none" }

\* C17: with FollowSymlinks set, the visitor is never handed a symlink: what
\* it is handed for a child is the metadata of the end of the child's chain
\* of links, by which the child is filtered and, if a directory, descended
\* into; a link that leads nowhere is not visited, it makes Walk return the
\* backend's error.
C17_FollowSymlinks ==
  Opts.FollowSymlinks =>
    /\ \A k \in 1..Len(calls) :
         /\ ~IsSymlink(calls[k].info)
         /\ RealPath(tree, calls[k].path, TRUE, MaxLinkHops) # Missing
         /\ tree.faults = NoFaults =>
              calls[k].info = InfoAt(tree, RealPath(tree, calls[k].path, TRUE, MaxLinkHops))
         /\ passesQuerySpecification(Opts, calls[k].info)
    /\ \A k \in 1..Len(reads) : KindOf(tree, reads[k], TRUE) = "dir"
    /\ (WalkRan /\ AllContinue /\ BackendSound(tree, TRUE))
         => /\ Visited = Admitted(tree, Opts)
            /\ \A p \in Objects(tree, TRUE) :
                 (KindOf(tree, p, TRUE) = "dir" /\ (Opts.Depth < 0 \/ Len(p) <= Opts.Depth))
                   => \E k \in 1..Len(reads) : reads[k] = p
    /\ (WalkRan /\ AllContinue /\ tree.faults = NoFaults /\ Dangling(tree, Opts) # {})
         => /\ result = ErrStat
            /\ Visited \cap Dangling(tree, Opts) = {}

C17_Witness ==
  /\ pc = "done"
  /\ tree = SymlinkTree
  /\ Opts = [DefaultWalkOpts EXCEPT !.FollowSymlinks = TRUE]
  /\ AllContinue
  /\ Visited = {<<"f">>, <<"d">>, <<"d", "g">>, <<"ld">>, <<"ld", "g">>, <<"lf">>, <<"ll">>}
  /\ \E k \in 1..Len(calls) : calls[k].path = <<"ll">> /\ calls[k].info = [kind |-> "file", size |-> 1]
  /\ result = Nil

\* the backend can lstat and readlink
CapsOk == rfs.lstater = "ok" /\ rfs.linkReader = "ok"

\* what the operating system finds at p, every link followed
RealOf(fs, p) == OsReal(fs, p, TRUE, MaxLinkHops)

\* no prefix of p is a symlink
NoLinkOn(fs, p) == \A i \in 1..Len(p) : SubSeq(p, 1, i) \notin DOMAIN fs.links

HomeX == tmpdir \o <<"home", "x">>
DataX == tmpdir \o <<"mnt", "nfs", "data", "x">>

\* C18: on a backend that can lstat and readlink, ResolveAll of a path that
\* leads to an existing object returns, without error and within one call
\* per link, the path of that object: no prefix of it is a symlink, and it
\* is what ResolveAll of the real path returns.  With mnt/nfs/symlinks/home
\* -> ../data (or the absolute path of data) and home -> ./mnt/nfs/symlinks/home,
\* ResolveAll of home/x is mnt/nfs/data/x.
C18_ResolveAll ==
  (rop = "ResolveAll" /\ CapsOk /\ RealOf(rfs, rinput) \notin {Missing, Loop}) =>
    /\ rdepth <= Cardinality(DOMAIN rfs.links) + 1
    /\ rpc = "done" =>
         /\ rresult.err = Nil
         /\ rresult.val = RealOf(rfs, rinput)
         /\ NoLinkOn(rfs, rresult.val)
         /\ resolveAllScan(rfs, RealOf(rfs, rinput), 1) =
              [kind |-> "return", path |-> rresult.val, err |-> Nil]
         /\ (rinput = HomeX /\ rfs.links \in {RelativeLinks.links, AbsoluteInnerLink.links})
              => rresult.val = DataX

C18_Witness ==
  /\ rpc = "done"
  /\ rop = "ResolveAll"
  /\ CapsOk
  /\ rfs.links = RelativeLinks.links
  /\ rinput = HomeX
  /\ rresult = [val |-> DataX, err |-> Nil]

\* the scan of ResolveAll meets a link on the path it is called on
LinkOnInput == ~NoLinkOn(rfs, rinput)

\* the statement of C19 as it stands: on a backend that cannot lstat,
\* IsSymlink and ResolveAll fail with ErrDoesNotImplement, and on one that
\* cannot readlink, so do Resolve, and ResolveAll once it meets a link.
C19_CapabilityMissingAlwaysFails ==
  rpc = "done" =>
    /\ (rop \in {"IsSymlink", "ResolveAll"} /\ rfs.lstater # "ok")
         => rresult.err = ErrDoesNotImplement
    /\ (rop = "Resolve" /\ rfs.linkReader # "ok")
         => rresult.err = ErrDoesNotImplement
    /\ (rop = "ResolveAll" /\ rfs.lstater = "ok" /\ rfs.linkReader # "ok" /\ LinkOnInput)
         => rresult.err = ErrDoesNotImplement

\* C19: on a backend that does not implement afero.Lstater, IsSymlink and
\* ResolveAll fail with ErrDoesNotImplement; on one that does not implement
\* afero.LinkReader, so do Resolve, and ResolveAll once it meets a link.  A
\* backend that implements afero.Lstater and reports that no lstat was made
\* gets no such error: IsSymlink returns false, with the error of the stat
\* if there was one, and ResolveAll returns an existing path as it was
\* given.
C19_CapabilityMissing ==
  rpc = "done" =>
    /\ (rop \in {"IsSymlink", "ResolveAll"} /\ rfs.lstater = "absent")
         => rresult.err = ErrDoesNotImplement
    /\ (rop = "Resolve" /\ rfs.linkReader = "absent")
         => rresult.err = ErrDoesNotImplement
    /\ (rop = "ResolveAll" /\ rfs.lstater = "ok" /\ rfs.linkReader = "absent" /\ LinkOnInput)
         => rresult.err = ErrDoesNotImplement
    /\ (rop = "IsSymlink" /\ rfs.lstater = "notcalled")
         => /\ rresult.val = FALSE
            /\ rresult.err = IF RealOf(rfs, rinput) \in {Missing, Loop} THEN ErrLstat ELSE Nil
    /\ (rop = "ResolveAll" /\ rfs.lstater = "notcalled"
                           /\ RealOf(rfs, rinput) \notin {Missing, Loop})
         => rresult = [val |-> rinput, err |-> Nil]

C19_Witness ==
  /\ rpc = "done"
  /\ rop = "IsSymlink"
  /\ rfs.lstater = "notcalled"
  /\ rfs.links = RelativeLinks.links
  /\ rinput = tmpdir \o <<"home">>
  /\ rresult = [val |-> FALSE, err |-> Nil]

\* C20: on a backend that can lstat and readlink, ResolveAll of a path that
\* runs into a cycle of symlinks never returns, neither a path nor an error:
\* every call of resolveAllHelper finds a link and calls itself again.
C20_CycleNeverReturns ==
  (rop = "ResolveAll" /\ CapsOk /\ RealOf(rfs, rinput) = Loop) =>
    /\ rpc = "running"
    /\ rresult = NoResult
    /\ resolveAllScan(rfs, rpath, 1).kind = "recurse"

C20_Witness ==
  /\ rop = "ResolveAll"
  /\ CapsOk
  /\ rfs.links = CyclicLinks.links
  /\ rinput = tmpdir \o <<"in", "x">>
  /\ rpc = "running"
  /\ rdepth = MaxResolveDepth
  /\ rpath = tmpdir \o <<"a", "x">>

\* ------------------------------------------------------------ RelativeTo
OtherIsPrefix == IsPrefix(PartsOf(pother), PartsOf(pthis))

\* C21: RelativeTo returns an error, and never crashes, whenever the other
\* path's normalized parts are not a prefix of the receiver's normalized
\* parts, also when the other path has more parts than the receiver; the
\* path it then returns is the receiver's own.
C21_MismatchIsAnError ==
  (pop = "RelativeTo" /\ ~OtherIsPrefix)
    => /\ pret.kind = "return"
       /\ pret.err # Nil
       /\ pret.val = pthis

\* the receiver's parts after those of the other path, joined by "/"
Remaining ==
  StringsJoin(SubSeq(PartsOf(pthis), Len(PartsOf(pother)) + 1, Len(PartsOf(pthis))))

\* C22: when the other path's normalized parts are a prefix of the
\* receiver's, RelativeTo returns without error the receiver's remaining
\* parts joined by "/", and "." when the two are the same path; joining the
\* other path with the result gives back the receiver's normalized path.
C22_RelativeToPrefix ==
  (pop = "RelativeTo" /\ OtherIsPrefix)
    => /\ pret.kind = "return"
       /\ pret.err = Nil
       /\ pret.val = IF PartsOf(pthis) = PartsOf(pother) THEN <<".">> ELSE Remaining
       /\ JoinText(normalizePathString(pother), pret.val)
            = CleanText(normalizePathString(pthis))

\* ---------------------------------------------------------------- Rename
\* C23: when the backend's rename succeeds, the receiver's text becomes
\* newname and the Path object addresses the renamed file: the new name
\* holds the content the old name held, and the old name, unless it is the
\* new name itself, is gone; a read through the same object then gives that
\* content.  When the backend's rename fails, the error is returned and the
\* receiver's text is unchanged.
C23_Rename ==
  [][ /\ pop' = "Rename" =>
           IF pret'.err = Nil
           THEN /\ pthis' = pother'
                /\ pfiles'[pthis'] = pfiles[pthis]
                /\ pfiles[pthis] # Absent
                /\ pother' # pthis => pfiles'[pthis] = Absent
           ELSE /\ pthis' = pthis
                /\ pfiles' = pfiles
      /\ (pop = "Rename" /\ pret.err = Nil /\ pop' = "ReadFile") =>
           /\ pret'.err = Nil
           /\ pret'.val = pfiles[pother]
    ]_vars

\* the file a was renamed to b and read through the same Path object
C23_Witness ==
  /\ pop = "ReadFile"
  /\ pother = <<"b">>
  /\ pthis = <<"b">>
  /\ pret = [val |-> "hello world!", err |-> Nil]
  /\ pfiles[<<"a">>] = Absent
  /\ pfiles[<<"d", "/", "a">>] = "bye"

\* ---------------------------------------------------------------- Equals
\* C24: Equals is lexical equality: it returns without error, with true
\* when the normalized texts of the two paths match and with false when
\* they differ (so a path equals itself, and the order of the two paths
\* does not matter).
C24_EqualsIsLexical ==
  (rop = "Equals" /\ rpc = "done")
    => /\ rresult.err = Nil
       /\ rresult.val = (Clean(rinput) = Clean(rother))

\* ------------------------------------------------------------- constructors
\* the options the constructor that returned was given
GivenOpts == IF npc = "NewWalk" THEN Opts ELSE nopts

\* C25: NewWalkWithOpts, and NewWalk through it, returns an error and no
\* Walk for a nil root or nil options; for a root and options that are not
\* nil it returns, without error, a Walk bound to that root and those
\* options.
C25_NewWalkWithOpts ==
  npc \in {"NewWalk", "NewWalkWithOpts"} =>
    IF nroot = NilPointer \/ GivenOpts = NilPointer
    THEN /\ nerr # Nil
         /\ nwalk = NilPointer
    ELSE /\ nerr = Nil
         /\ nwalk.root = nroot
         /\ nwalk.Opts = GivenOpts

\* NewWalkWithOpts was given a root and no options
C25_Witness ==
  /\ npc = "NewWalkWithOpts"
  /\ nroot = [path |-> <<"subdir">>]
  /\ nopts = NilPointer
  /\ nerr = ErrOptsNil
  /\ nwalk = NilPointer

\* the step leaves every field of the configuration but field as it was
OnlyChanges(field) == \A f \in DOMAIN Opts \ {field} : Opts'[f] = Opts[f]

\* C26: the default configuration is Depth -1, the Basic algorithm, no
\* following of symlinks, both size bounds -1 and the three visit flags
\* true; NewWalk starts from it, and each option function changes its own
\* field only, every other field keeping the value it had.
C26_DefaultsAndOptions ==
  /\ Opts = [ Depth |-> -1, Algorithm |-> AlgorithmBasic, FollowSymlinks |-> FALSE,
              MinimumFileSize |-> -1, MaximumFileSize |-> -1,
              VisitFiles |-> TRUE, VisitDirs |-> TRUE, VisitSymlinks |-> TRUE ]
  /\ [][ /\ WalkDepth => OnlyChanges("Depth")
         /\ WalkAlgorithm => OnlyChanges("Algorithm")
         /\ WalkFollowSymlinks => OnlyChanges("FollowSymlinks")
         /\ WalkMinimumFileSize => OnlyChanges("MinimumFileSize")
         /\ WalkMaximumFileSize => OnlyChanges("MaximumFileSize")
         /\ WalkVisitFiles => OnlyChanges("VisitFiles")
         /\ WalkVisitDirs => OnlyChanges("VisitDirs")
         /\ WalkVisitSymlinks => OnlyChanges("VisitSymlinks")
       ]_vars

\* NewWalk returned a Walk whose options differ from the defaults in the
\* maximum size and the directory flag only
C26_Witness ==
  /\ npc = "NewWalk"
  /\ nerr = Nil
  /\ nwalk.Opts = [ Depth |-> -1, Algorithm |-> AlgorithmBasic, FollowSymlinks |-> FALSE,
                    MinimumFileSize |-> -1, MaximumFileSize |-> 2,
                    VisitFiles |-> TRUE, VisitDirs |-> FALSE, VisitSymlinks |-> TRUE ]

\* ------------------------------------------------------ filter and descent
ReadSet == {reads[k] : k \in 1..Len(reads)}

\* the directories the depth limit lets the walk read
DirsWithin(t, o) ==
  {root} \cup { d \in Objects(t, o.FollowSymlinks) :
                  /\ KindOf(t, d, o.FollowSymlinks) = "dir"
                  /\ o.Depth < 0 \/ Len(d) <= o.Depth }

\* C27: the query filter decides on the visitor call only, never on the
\* descent: in every algorithm, whatever the visit flags, a walk the
\* visitor lets run reads every directory within the depth limit, also a
\* directory the filter does not admit, and hands the visitor every
\* admitted object within the depth limit, and no other.
C27_FilterGatesVisitOnly ==
  (WalkRan /\ AllContinue /\ BackendSound(tree, Opts.FollowSymlinks))
    => /\ result = Nil
       /\ ReadSet = DirsWithin(tree, Opts)
       /\ Visited = Admitted(tree, Opts)
       /\ ~Opts.VisitDirs =>
            \A d \in DirsWithin(tree, Opts) \ {root} : d \in ReadSet \ Visited

\* directories are not visited, and the files of the directory subdir are
C27_Witness ==
  /\ pc = "done"
  /\ tree = TwoFilesAtRootTwoInSubdir
  /\ Opts = [DefaultWalkOpts EXCEPT !.VisitDirs = FALSE]
  /\ AllContinue
  /\ <<"subdir">> \in ReadSet \ Visited
  /\ \E k \in 1..Len(calls) : Front(calls[k].path) = <<"subdir">>
  /\ Len(calls) = 4

\* --------------------------------------------------------- walks repeated
\* the Walk before the last call of Walk
LastWalk == prev[Len(prev)]

\* the visitor has answered the calls of this Walk as it answered the same
\* calls of the Walk before
SameAnswers ==
  \A k \in 1..Len(calls) :
    k <= Len(LastWalk.calls) => calls[k].ret = LastWalk.calls[k].ret

\* a repeated Walk that returned did what the Walk before it did
RepeatedAlike ==
  (pc = "done" /\ prev # << >> /\ SameAnswers)
    => /\ calls = LastWalk.calls
       /\ result = LastWalk.result

\* C28: Walk changes neither its configuration nor its root path: from the
\* call on, whether the walk completes, is stopped by the visitor or fails,
\* every field of the options and the root are what they were; so a Walk
\* called again on the unchanged tree, its visitor answering alike, makes
\* the same visitor calls in the same order and returns the same result.
C28_WalkLeavesConfiguration ==
  [][ /\ pc' # "idle" => (Opts' = Opts /\ wroot' = wroot)
      /\ RepeatedAlike' ]_vars

\* a walk the visitor stopped at its second call was repeated with a depth
\* limit, and stopped at the same call
C28_Witness ==
  /\ pc = "done"
  /\ prev # << >>
  /\ Opts = [DefaultWalkOpts EXCEPT !.Algorithm = AlgorithmDepthFirst, !.Depth = 0]
  /\ tree = TwoFilesAtRootTwoInSubdir
  /\ Len(calls) = 2
  /\ calls[2].ret = ErrStopWalk
  /\ calls = LastWalk.calls
  /\ result = Nil

\* ------------------------------------------------------------- link cycles
\* a component of p is a symlink
LinkOn(t, p) == \E i \in 1..Len(p) : KindOf(t, SubSeq(p, 1, i), FALSE) = "symlink"

\* the deepest directory of the tree
TreeDepth(t) == CHOOSE n \in 0..8 : /\ \E d \in DOMAIN t.ents : Len(d) = n
                                   /\ \A d \in DOMAIN t.ents : Len(d) <= n

\* with symlinks not followed no directory is read through a symlink, a
\* symlink is handed to the visitor as a symlink, no directory is read twice
\* and the walk functions nest no deeper than the tree
NoDescentThroughLinks ==
  ~Opts.FollowSymlinks =>
    /\ \A k \in 1..Len(reads) : ~LinkOn(tree, reads[k])
    /\ \A k \in 1..Len(calls) :
         KindOf(tree, calls[k].path, FALSE) = "symlink" => IsSymlink(calls[k].info)
    /\ \A j, k \in 1..Len(reads) : reads[j] = reads[k] => j = k
    /\ Len(stack) <= TreeDepth(tree) + 1

\* C29: with symlinks not followed Walk never descends through a symlink:
\* a symlink to a directory is classified as a symlink and what it leads
\* to is never read; so on a finite tree, also one whose symlinks form
\* cycles or lead to ancestors, a Walk whose backend and visitor calls all
\* return does return.
C29_NoFollowTerminates ==
  /\ []NoDescentThroughLinks
  /\ (pc = "walking" /\ ~Opts.FollowSymlinks) ~> (pc = "done")

\* a walk that does not follow links returned having visited, as symlinks,
\* the link to the directory it lies in and the link to the root
C29_Witness ==
  /\ pc = "done"
  /\ ~Opts.FollowSymlinks
  /\ tree = AncestorLinkTree
  /\ result = Nil
  /\ \E k \in 1..Len(calls) : calls[k].path = <<"d", "back">> /\ IsSymlink(calls[k].info)
  /\ \E k \in 1..Len(calls) : calls[k].path = <<"top">> /\ IsSymlink(calls[k].info)
  /\ ReadSet = {root, <<"d">>}

\* ------------------------------------------------- what the visitor is given
\* the paths the backend lists in directory d
Listed(t, d) == {ReadDir(t, d)[1][i] : i \in 1..Len(ReadDir(t, d)[1])}

\* C30: whatever the algorithm and the configuration, the visitor is always
\* given metadata, namely what the backend answered for that path, and a
\* path that is an immediate child of a directory read during this walk and
\* is not the walk root: it is invoked neither for the root nor for a node
\* whose metadata could not be obtained.
C30_VisitorArguments ==
  \A k \in 1..Len(calls) :
    /\ calls[k].info # NoInfo
    /\ <<calls[k].info, calls[k].err>> = childInfo(Opts, tree, calls[k].path)
    /\ calls[k].path # wroot
    /\ \E d \in ReadSet : calls[k].path \in Listed(tree, d) \ {d}

\* a walk over a root that the backend lists within itself visited the
\* other entries of the root and of its subdirectory
C30_Witness ==
  /\ pc = "done"
  /\ tree = SelfListedRootTree
  /\ wroot \in Listed(tree, wroot)
  /\ Opts.VisitDirs
  /\ AllContinue
  /\ Visited = {<<"a">>, <<"d">>, <<"d", "g">>}
  /\ result = Nil

\* ------------------------------------------------------------ type sanity
TypeOK ==
  /\ pc \in {"idle", "walking", "done"}
  /\ result \in {Nil, ErrInfoIsNil, ErrInvalidAlgorithm, AwwShoot, ErrReadDir, ErrStat, ErrLstat}
  /\ Len(stack) <= 5

====
